---- MODULE Spec2Model ----
(***************************************************************************)
(* EVC Local Sync: the synchronization engine (SyncEngine), the snapshot   *)
(* store (SyncStateManager) and the conflict resolver (ConflictResolver),  *)
(* for one project mapping between the AI project tree ("ai", side A) and  *)
(* the Obsidian vault tree ("obsidian", side B).                           *)
(*                                                                         *)
(* A file is identified by its relative path and carries its modification  *)
(* time in milliseconds; the mtime doubles as the identity of the file's   *)
(* version, since the engine never looks at content when it reconciles.    *)
(* A run of syncMapping is atomic between its two dialogue suspension      *)
(* points (deletion confirmation, conflict modal).                         *)
(***************************************************************************)
EXTENDS Integers, Sequences, FiniteSets, TLC

VARIABLES
  aiDir,                    \* the project docs directory exists (fs)
  aiDisk,                   \* project tree: relative path -> mtime
  obsFolder,                \* the vault docs folder exists (TFolder)
  obsDisk,                  \* vault tree: relative path -> mtime
  store,                    \* SyncStateManager.store.mappings[mapping.id]
  settings,                 \* EVCLocalSyncSettings (the fields the engine reads)
  mapping,                  \* the ProjectMapping being synced
  conflictModalCallback,    \* SyncEngine.conflictModalCallback is registered
  deletionConfirmCallback,  \* SyncEngine.deletionConfirmCallback is registered
  run,                      \* the syncMapping invocation in flight, and its result
  dry,                      \* the DryRunResult last returned by dryRunMapping
  quiet,                    \* the last run ended clean and nothing changed since
  mappings,                 \* settings.mappings: the ids of the configured mappings
  worlds,                   \* per mapping id: its configuration, trees and sync state
  all,                      \* the syncAll invocation in flight, and its results
  watcher,                  \* FileWatcher: pendingEvents, debounceTimer, callbacks
  now,                      \* the clock the debounce timer runs on
  flushed,                  \* the batches flushPendingEvents has delivered
  resolver,                 \* ConflictResolver: strategy, last conflict and decision
  plugin,                   \* the plugin's triggers and the invocation they suspended
  modal,                    \* the ConflictModal and the two promises behind it
  op                        \* one copy or delete of a file, with its backups

vars == <<aiDir, aiDisk, obsFolder, obsDisk, store, settings, mapping,
          conflictModalCallback, deletionConfirmCallback, run, dry, quiet,
          mappings, worlds, all, watcher, now, flushed, resolver,
          plugin, modal, op>>

\* what a run of syncMapping on the mapping at hand leaves alone
unitVars ==
  <<mappings, worlds, all, watcher, now, flushed, resolver, plugin, modal, op>>

----------------------------------------------------------------------------
(* Bounds and input sets *)

\* I/O failures (throwing copy or delete) injected into one run
MaxFailures == 1

\* relative paths below the docs roots, in directory listing order
Paths == <<"a.md", "b.md", "c.md">>

PathSet == {Paths[i] : i \in 1..Len(Paths)}

\* the paths the initial trees hold and the environment touches; c.md only
\* occurs in the worked scenario of the reconciliation
EditPaths == {"a.md", "b.md"}

\* modification times in ms: 999 and 1 ms apart (inside the tolerance) and
\* 1000 ms apart (outside it)
Times == {1000, 1999, 2000}

\* the mtimes a path is saved with: b.md is only saved on whole seconds
TimesOf(p) == IF p = "a.md" THEN Times ELSE Times \ {1999}

\* compareFileTimes: differences below one second count as "same"
ToleranceMs == 1000

Strategies == {"newer-wins", "always-ask", "ai-wins", "obsidian-wins"}

Unset == "unset"

\* (global conflictResolution, mapping.conflictResolutionOverride): the three
\* strategies without a dialogue as the global setting, always-ask as a
\* mapping's override of newer-wins
StrategyConfigs ==
  {<<s, Unset>> : s \in Strategies \ {"always-ask"}}
  \cup {<<"newer-wins", "always-ask">>}

\* (syncDeletions, confirmDeletions)
DeletionConfigs == {<<FALSE, TRUE>>, <<TRUE, TRUE>>, <<TRUE, FALSE>>}

Decisions == {"use-ai", "use-obsidian", "skip"}

Trees ==
  UNION {{f \in [S -> Times] : \A p \in S : f[p] \in TimesOf(p)} :
         S \in SUBSET EditPaths}

EmptyTree == [p \in {} |-> 0]

----------------------------------------------------------------------------
(* Helpers *)

Abs(x) == IF x < 0 THEN -x ELSE x

\* the keys of a listing / Map, in listing (insertion) order
Listing(files) == SelectSeq(Paths, LAMBDA p : p \in DOMAIN files)

\* Map.delete(key)
MapDelete(files, p) == [q \in (DOMAIN files) \ {p} |-> files[q]]

\* writing a file: create or overwrite
Put(files, p, mtime) == (p :> mtime) @@ files

Range(s) == {s[i] : i \in 1..Len(s)}

----------------------------------------------------------------------------
(* sync-state-manager.ts *)

NoState == [present |-> FALSE, aiFiles |-> {}, obsFiles |-> {}]

getEffectiveConflictResolution(m, s) ==
  IF m.conflictResolutionOverride # Unset
  THEN m.conflictResolutionOverride
  ELSE s.conflictResolution

DeletionOf(p, from, still) ==
  [relativePath |-> p, deletedFrom |-> from, existsIn |-> still]

\* the paths recorded in prevFiles that are gone from one listing and still
\* in the other, in the order the state records them
DeletedIn(prevFiles, goneFrom, stillIn) ==
  SelectSeq(Paths, LAMBDA p :
    p \in prevFiles /\ p \notin DOMAIN goneFrom /\ p \in DOMAIN stillIn)

DeletionsOf(paths, from, still) ==
  [i \in 1..Len(paths) |-> DeletionOf(paths[i], from, still)]

\* a detection that only looks for the files deleted in the AI project
detectDeletionsInAiOnly(previousState, currentAiFiles, currentObsFiles, bidirectional) ==
  IF ~previousState.present THEN << >>
  ELSE DeletionsOf(DeletedIn(previousState.aiFiles, currentAiFiles, currentObsFiles),
                   "ai", "obsidian")

\* a detection that takes every path missing from one listing for a deleted
\* file, whether a previous state recorded it or not
detectDeletionsByListing(previousState, currentAiFiles, currentObsFiles, bidirectional) ==
  LET fromAi == DeletionsOf(DeletedIn(PathSet, currentAiFiles, currentObsFiles),
                            "ai", "obsidian")
      fromObs == DeletionsOf(DeletedIn(PathSet, currentObsFiles, currentAiFiles),
                             "obsidian", "ai")
  IN  IF bidirectional THEN fromAi \o fromObs ELSE fromAi

detectDeletions(previousState, currentAiFiles, currentObsFiles, bidirectional) ==
  IF ~previousState.present THEN << >>
  ELSE
    LET fromAi == DeletionsOf(DeletedIn(previousState.aiFiles, currentAiFiles,
                                        currentObsFiles), "ai", "obsidian")
        fromObs == DeletionsOf(DeletedIn(previousState.obsFiles, currentObsFiles,
                                         currentAiFiles), "obsidian", "ai")
    IN  IF bidirectional THEN fromAi \o fromObs ELSE fromAi

\* buildFileState: one state per listed file that can still be read (hashed)
buildFileState(files, disk) == {p \in DOMAIN files : p \in DOMAIN disk}

updateState(aiStates, obsStates) ==
  [present |-> TRUE, aiFiles |-> aiStates, obsFiles |-> obsStates]

----------------------------------------------------------------------------
(* conflict-resolver.ts *)

\* the comparison the wrong way round
getOlderSource(aiMtime, obsMtime) ==
  IF aiMtime > obsMtime THEN "obsidian" ELSE "ai"

getNewerSource(aiMtime, obsMtime) ==
  IF aiMtime > obsMtime THEN "ai" ELSE "obsidian"

\* newer-wins with an equal pair going to the project side
resolveNewerWinsTieToAi(aiMtime, obsMtime) ==
  IF aiMtime >= obsMtime THEN "use-ai" ELSE "use-obsidian"

resolveNewerWins(aiMtime, obsMtime) ==
  IF getNewerSource(aiMtime, obsMtime) = "ai" THEN "use-ai" ELSE "use-obsidian"

resolveAlwaysAsk == "skip"

\* a resolver that treats every strategy as newer-wins
resolveByTimeOnly(strategy, aiMtime, obsMtime) ==
  IF strategy = "always-ask" THEN resolveAlwaysAsk
  ELSE resolveNewerWins(aiMtime, obsMtime)

resolve(strategy, aiMtime, obsMtime) ==
  CASE strategy = "newer-wins" -> resolveNewerWins(aiMtime, obsMtime)
    [] strategy = "ai-wins" -> "use-ai"
    [] strategy = "obsidian-wins" -> "use-obsidian"
    [] strategy = "always-ask" -> resolveAlwaysAsk
    [] OTHER -> resolveNewerWins(aiMtime, obsMtime)

resolveWithUserChoice(decision) == decision

----------------------------------------------------------------------------
(* sync-engine.ts: the state of one syncMapping invocation *)

IdleRun ==
  [pc |-> "idle",
   aiFiles |-> EmptyTree, obsFiles |-> EmptyTree,       \* the two listings
   aiFileMap |-> EmptyTree, obsFileMap |-> EmptyTree,   \* the lookup maps
   deletions |-> << >>,       \* detectDeletions' result
   idx |-> 1,                 \* position of the AI -> Obsidian loop
   files |-> << >>, conflicts |-> << >>, errors |-> << >>,
   filesCopied |-> 0, filesSkipped |-> 0, filesDeleted |-> 0,
   error |-> FALSE, success |-> FALSE,
   asked |-> << >>,           \* calls of conflictModalCallback and their answers
   confirmations |-> << >>,   \* calls of deletionConfirmCallback and their answers
   firstSync |-> FALSE,       \* isFirstSync(mapping.id) when the run started
   afterQuiet |-> FALSE]      \* started right after a clean run, nothing changed

FileResult(p, action, direction, ok) ==
  [file |-> p, action |-> action, direction |-> direction, success |-> ok]

\* an injected I/O failure is possible while the run's failure budget lasts
CanFail(m) == Len(m.run.errors) < MaxFailures

\* a validation that lets every path through
validateAnyPath(dirExists) == TRUE

validateAiPath(dirExists) == dirExists

\* the comparison with the boundary on the other side: exactly one second
\* apart still counts as "same"
compareFileTimesInclusive(aiMtime, obsMtime) ==
  IF Abs(aiMtime - obsMtime) <= ToleranceMs THEN "same"
  ELSE IF aiMtime > obsMtime THEN "ai-newer" ELSE "obs-newer"

compareFileTimes(aiMtime, obsMtime) ==
  IF Abs(aiMtime - obsMtime) < ToleranceMs THEN "same"
  ELSE IF aiMtime > obsMtime THEN "ai-newer" ELSE "obs-newer"

\* a write that leaves the target's mtime at the time of writing, later than
\* every source mtime
utimesSkipped(sourceMtime) == CHOOSE t \in Times : \A u \in Times : t >= u

\* a write that leaves the target's mtime a second away from the source's
utimesAwayFromSource(sourceMtime) == IF sourceMtime = 2000 THEN 1000 ELSE 2000

\* fs.utimesSync(target, sourceMtime, sourceMtime): the mtime the target gets
utimesSync(sourceMtime) == sourceMtime

\* copyFileToObsidian: read the source from disk, write it into the vault and
\* set the target's mtime to the source's. The outcomes are the machine
\* states after the call, paired with whether it returned or threw.
copyFileToObsidian(m, p) ==
  IF p \notin DOMAIN m.ai THEN {[ok |-> FALSE, m |-> m]}
  ELSE {[ok |-> TRUE, m |-> [m EXCEPT !.obs = Put(m.obs, p, utimesSync(m.ai[p])), !.folder = TRUE]]}
       \cup (IF CanFail(m) THEN {[ok |-> FALSE, m |-> m]} ELSE {})

\* copyFileToAi: read the vault file, write it into the project and set the
\* target's mtime to the source's
copyFileToAi(m, p) ==
  IF p \notin DOMAIN m.obs THEN {[ok |-> FALSE, m |-> m]}
  ELSE {[ok |-> TRUE, m |-> [m EXCEPT !.ai = Put(m.ai, p, utimesSync(m.obs[p]))]]}
       \cup (IF CanFail(m) THEN {[ok |-> FALSE, m |-> m]} ELSE {})

\* deleteFile: trash the vault file or unlink the project file, if it exists
deleteFile(m, deletion) ==
  {[ok |-> TRUE,
    m |-> IF deletion.existsIn = "obsidian"
          THEN [m EXCEPT !.obs = MapDelete(m.obs, deletion.relativePath)]
          ELSE [m EXCEPT !.ai = MapDelete(m.ai, deletion.relativePath)]]}
  \cup (IF CanFail(m) THEN {[ok |-> FALSE, m |-> m]} ELSE {})

\* a bookkeeping that keeps a failure out of the errors list
RecordWithoutError(m, p, action, direction, ok) ==
  [m EXCEPT
     !.run.files = Append(@, FileResult(p, action, direction, ok)),
     !.run.filesCopied = IF ok /\ action \in {"copy", "update"} THEN @ + 1 ELSE @,
     !.run.filesSkipped = IF action = "skip" THEN @ + 1 ELSE @,
     !.run.filesDeleted = IF ok /\ action = "delete" THEN @ + 1 ELSE @]

\* files.push(...) with the counters and the errors list
Record(m, p, action, direction, ok) ==
  [m EXCEPT
     !.run.files = Append(@, FileResult(p, action, direction, ok)),
     !.run.errors = IF ok THEN @ ELSE Append(@, p),
     !.run.filesCopied = IF ok /\ action \in {"copy", "update"} THEN @ + 1 ELSE @,
     !.run.filesSkipped = IF action = "skip" THEN @ + 1 ELSE @,
     !.run.filesDeleted = IF ok /\ action = "delete" THEN @ + 1 ELSE @]

ToObsidian(m, p, action) ==
  {Record(r.m, p, action, "ai-to-obs", r.ok) : r \in copyFileToObsidian(m, p)}

ToAi(m, p, action) ==
  {Record(r.m, p, action, "obs-to-ai", r.ok) : r \in copyFileToAi(m, p)}

\* an accepted deletion that leaves the path in the in-memory listing
DeleteOneKeepingListing(m, deletion) ==
  LET dir == IF deletion.existsIn = "obsidian" THEN "ai-to-obs" ELSE "obs-to-ai"
      p == deletion.relativePath
  IN  {Record(r.m, p, "delete", dir, r.ok) : r \in deleteFile(m, deletion)}

\* syncMapping, lines 243-271: one accepted deletion
DeleteOne(m, deletion) ==
  LET dir == IF deletion.existsIn = "obsidian" THEN "ai-to-obs" ELSE "obs-to-ai"
      p == deletion.relativePath
  IN  {IF r.ok
       THEN LET d == Record(r.m, p, "delete", dir, TRUE)
            IN  IF deletion.existsIn = "obsidian"
                THEN [d EXCEPT !.run.obsFileMap = MapDelete(@, p)]
                ELSE [d EXCEPT !.run.aiFileMap = MapDelete(@, p)]
       ELSE Record(r.m, p, "delete", dir, FALSE)
       : r \in deleteFile(m, deletion)}

RECURSIVE DeletionLoop(_, _)
DeletionLoop(m, i) ==
  IF i > Len(m.run.deletions) THEN {m}
  ELSE UNION {DeletionLoop(s, i + 1) : s \in DeleteOne(m, m.run.deletions[i])}

\* a resolution that applies use-obsidian in every mapping
ApplyResolutionBothWays(m, p, decision) ==
  IF decision = "use-ai" THEN ToObsidian(m, p, "update")
  ELSE IF decision = "use-obsidian" THEN ToAi(m, p, "update")
  ELSE {Record(m, p, "skip", "ai-to-obs", TRUE)}

\* syncMapping, lines 338-389: the operation a resolution decision leads to
ApplyResolution(m, p, decision) ==
  IF decision = "use-ai" THEN ToObsidian(m, p, "update")
  ELSE IF decision = "use-obsidian" /\ mapping.bidirectional THEN ToAi(m, p, "update")
  ELSE {Record(m, p, "skip", "ai-to-obs", TRUE)}

\* syncMapping, lines 479-502: the snapshot and the returned result
Finish(m) ==
  [m EXCEPT
     !.store = IF settings.syncDeletions
               THEN updateState(buildFileState(m.run.aiFiles, m.ai),
                                buildFileState(m.run.obsFiles, m.obs))
               ELSE @,
     !.run.pc = "done",
     !.run.success = (Len(m.run.errors) = 0)]

\* syncMapping, lines 394-477: the Obsidian -> AI loop
ObsStep(m, p) ==
  IF mapping.bidirectional
  THEN IF p \notin DOMAIN m.run.aiFileMap THEN ToAi(m, p, "copy") ELSE {m}
  ELSE IF mapping.syncDirection = "obs-to-ai"
  THEN IF p \notin DOMAIN m.run.aiFileMap THEN ToAi(m, p, "copy")
       ELSE IF /\ compareFileTimes(m.run.aiFileMap[p], m.run.obsFileMap[p]) # "same"
               /\ m.run.obsFileMap[p] > m.run.aiFileMap[p]
            THEN ToAi(m, p, "update")
            ELSE {m}
  ELSE {m}

RECURSIVE ObsLoop(_, _)
ObsLoop(m, j) ==
  LET keys == Listing(m.run.obsFileMap)
  IN  IF j > Len(keys) THEN {Finish(m)}
      ELSE UNION {ObsLoop(s, j + 1) : s \in ObsStep(m, keys[j])}

Advance(m) == [m EXCEPT !.run.idx = @ + 1]

\* the modal is raised for every conflict, whatever the strategy
ShouldAskAnyStrategy(effectiveConflictResolution) == conflictModalCallback

\* syncMapping, line 333: the conflict goes to the modal
ShouldAsk(effectiveConflictResolution) ==
  effectiveConflictResolution = "always-ask" /\ conflictModalCallback

\* syncMapping, line 238: the deletions go to the confirmation dialogue
ShouldConfirm == settings.confirmDeletions /\ deletionConfirmCallback

\* syncMapping, lines 276-392: the AI -> Obsidian loop from position run.idx,
\* up to the end of the run or to the next conflict dialogue
RECURSIVE AiLoop(_)
AiLoop(m) ==
  LET keys == Listing(m.run.aiFileMap)
      i == m.run.idx
      effectiveConflictResolution == getEffectiveConflictResolution(mapping, settings)
  IN  IF i > Len(keys) THEN ObsLoop(m, 1)
      ELSE
        LET p == keys[i] IN
        IF p \notin DOMAIN m.run.obsFileMap
        THEN UNION {AiLoop(Advance(s)) : s \in ToObsidian(m, p, "copy")}
        ELSE IF compareFileTimes(m.run.aiFileMap[p], m.run.obsFileMap[p]) = "same"
        THEN AiLoop(Advance(Record(m, p, "skip", "ai-to-obs", TRUE)))
        ELSE
          LET c == [m EXCEPT !.run.conflicts = Append(@, p)]
              resolution == resolve(effectiveConflictResolution,
                                    m.run.aiFileMap[p], m.run.obsFileMap[p])
          IN  IF ShouldAsk(effectiveConflictResolution)
              THEN {[c EXCEPT !.run.pc = "conflict"]}
              ELSE UNION {AiLoop(Advance(s)) : s \in ApplyResolution(c, p, resolution)}

\* a deletion pass that, when the deletions are declined, drops their paths
\* from the listings
DeletionPassForgetting(m, shouldDelete) ==
  IF shouldDelete THEN UNION {AiLoop(s) : s \in DeletionLoop(m, 1)}
  ELSE LET gone == {m.run.deletions[i].relativePath : i \in 1..Len(m.run.deletions)}
       IN  AiLoop([m EXCEPT
                     !.run.aiFileMap = [q \in (DOMAIN @) \ gone |-> @[q]],
                     !.run.obsFileMap = [q \in (DOMAIN @) \ gone |-> @[q]]])

\* syncMapping, lines 242-276: the deletion pass once shouldDelete is known
DeletionPass(m, shouldDelete) ==
  IF shouldDelete THEN UNION {AiLoop(s) : s \in DeletionLoop(m, 1)} ELSE AiLoop(m)

----------------------------------------------------------------------------
(* sync-engine.ts: dryRunMapping *)

PlannedSyncAction(p, action, direction) ==
  [file |-> p, action |-> action, direction |-> direction]

NoDryRun ==
  [shown |-> FALSE, plannedActions |-> << >>, plannedDeletions |-> << >>,
   errors |-> 0]

\* dryRunMapping's DryRunResult
DryRunResult(dirExists, m) ==
  IF ~validateAiPath(dirExists)
  THEN [shown |-> TRUE, plannedActions |-> << >>, plannedDeletions |-> << >>,
        errors |-> 1]
  ELSE
    LET aiFiles == m.ai
        obsFiles == IF m.folder THEN m.obs ELSE EmptyTree
        previousState == m.store
        aiKeys == Listing(aiFiles)
        obsKeys == Listing(obsFiles)
        \* lines 587-624: check AI -> Obsidian
        AiPlan(p) ==
          IF p \notin DOMAIN obsFiles
          THEN <<PlannedSyncAction(p, "copy", "ai-to-obs")>>
          ELSE LET comparison == compareFileTimes(aiFiles[p], obsFiles[p])
               IN  IF comparison = "ai-newer"
                   THEN <<PlannedSyncAction(p, "update", "ai-to-obs")>>
                   ELSE IF comparison = "obs-newer" /\ ~mapping.bidirectional
                   THEN <<PlannedSyncAction(p, "skip", "ai-to-obs")>>
                   ELSE << >>
        \* lines 626-656: check Obsidian -> AI
        ObsPlan(p) ==
          IF p \notin DOMAIN aiFiles
          THEN <<PlannedSyncAction(p, "copy", "obs-to-ai")>>
          ELSE IF /\ mapping.bidirectional
                  /\ compareFileTimes(aiFiles[p], obsFiles[p]) = "obs-newer"
          THEN <<PlannedSyncAction(p, "update", "obs-to-ai")>>
          ELSE << >>
        fromAi[i \in 0..Len(aiKeys)] ==
          IF i = 0 THEN << >> ELSE fromAi[i - 1] \o AiPlan(aiKeys[i])
        fromObs[j \in 0..Len(obsKeys)] ==
          IF j = 0 THEN << >> ELSE fromObs[j - 1] \o ObsPlan(obsKeys[j])
    IN  [shown |-> TRUE,
         plannedActions |->
           fromAi[Len(aiKeys)] \o
           (IF mapping.bidirectional \/ mapping.syncDirection = "obs-to-ai"
            THEN fromObs[Len(obsKeys)] ELSE << >>),
         plannedDeletions |->
           IF settings.syncDeletions
           THEN detectDeletions(previousState, aiFiles, obsFiles,
                                mapping.bidirectional)
           ELSE << >>,
         errors |-> 0]

\* a dry run that prepares the vault folder the way syncMapping does
dryRunMappingEnsuringFolder(dirExists, m) ==
  [m |-> IF validateAiPath(dirExists) THEN [m EXCEPT !.folder = TRUE] ELSE m,
   result |-> DryRunResult(dirExists, m)]

\* dryRunMapping: the result, with the machine state the call leaves behind.
\* It lists and compares, and neither creates the vault folder nor writes,
\* deletes, saves the sync state or calls a dialogue.
dryRunMapping(dirExists, m) ==
  [m |-> m, result |-> DryRunResult(dirExists, m)]

----------------------------------------------------------------------------
(* The components around one run of syncMapping, at rest *)

\* ProjectMapping.id of the configured mappings, in settings.mappings order
MappingIds == <<"m1", "m2">>

MappingIdSet == Range(MappingIds)

NoMapping == "none"

\* syncAll's locals: enabledMappings, the loop position, results
IdleAll ==
  [pc |-> "idle", enabledMappings |-> << >>, current |-> NoMapping,
   results |-> << >>]

\* FileWatcher after construction: no callbacks, no watchers, nothing
\* pending, no timer (debounceTimer = null)
NoTimer == -1

NoEvents == << >>

\* pendingEvents holds the Map's entries in insertion order; burst records the
\* events handled since the last flush or stop, handled counts all of them,
\* stopping says that a call of stop is awaiting the close of the watchers
IdleWatcher ==
  [isWatching |-> FALSE, callbacks |-> << >>, pendingEvents |-> NoEvents,
   debounceTimer |-> NoTimer, burst |-> << >>, handled |-> 0,
   stopping |-> FALSE]

\* ConflictResolver before its first resolve
NoResult ==
  [aiMtime |-> 0, obsMtime |-> 0, decision |-> "none", userChosen |-> FALSE,
   strategy |-> "none"]

IdleResolver == [strategy |-> "newer-wins", result |-> NoResult]

\* no trigger of a sync has been handled yet
NoTrigger == [by |-> "none", busy |-> FALSE, started |-> FALSE]

\* the plugin at rest: the mapping is enabled, no invocation of syncMapping
\* waits behind the one in run, the watchers have nothing to report
IdlePlugin ==
  [syncEnabled |-> TRUE,
   suspended |-> << >>,     \* invocations waiting at a dialogue, oldest first
   inflight |-> {},         \* writes the watchers have not reported yet
   trigger |-> NoTrigger,   \* the last trigger and what it did
   manual |-> 0,            \* manual and scheduled triggers so far
   runs |-> 0]              \* runs the watcher has started so far

\* no ConflictModal is open; awaited is the promise showConflictModal
\* returned to the engine, resolvePromise the modal's own
NoModal == [state |-> "none", awaited |-> "none", resolvePromise |-> "none"]

\* no file operation
NoOp == [pc |-> "none"]

sideVars == <<plugin, modal, op>>

\* a mapping's configuration, trees and sync state
World(enabled, m, dirExists, ai, folder, obs, st) ==
  [syncEnabled |-> enabled, mapping |-> m, aiDir |-> dirExists, aiDisk |-> ai,
   obsFolder |-> folder, obsDisk |-> obs, store |-> st]

----------------------------------------------------------------------------
(* Initial states *)

SettingsSpace ==
  [conflictResolution : Strategies, syncDeletions : BOOLEAN,
   confirmDeletions : BOOLEAN]

Mappings ==
  {[bidirectional |-> TRUE, syncDirection |-> "ai-to-obs",
    conflictResolutionOverride |-> o] : o \in {Unset, "always-ask"}}
  \cup
  {[bidirectional |-> FALSE, syncDirection |-> d,
    conflictResolutionOverride |-> o] :
      d \in {"ai-to-obs", "obs-to-ai"}, o \in {Unset, "always-ask"}}

States ==
  {NoState} \cup
  {updateState(a, o) : a \in SUBSET EditPaths, o \in SUBSET EditPaths}

\* The plugin has loaded: settings and sync-state.json are whatever an
\* earlier session left, onload has registered the conflict modal callback
\* and nothing registers a deletion confirmation.
Init ==
  /\ aiDir \in BOOLEAN
  /\ aiDisk \in (IF aiDir THEN Trees ELSE {EmptyTree})
  /\ obsFolder \in BOOLEAN
  /\ obsDisk \in (IF obsFolder THEN Trees ELSE {EmptyTree})
  /\ store \in States
  /\ settings \in SettingsSpace
  /\ mapping \in Mappings
  /\ <<settings.conflictResolution, mapping.conflictResolutionOverride>>
       \in StrategyConfigs
  /\ <<settings.syncDeletions, settings.confirmDeletions>> \in DeletionConfigs
  /\ conflictModalCallback = TRUE
  /\ deletionConfirmCallback = FALSE
  /\ run = IdleRun
  /\ dry = NoDryRun
  /\ quiet = FALSE
  /\ mappings = <<MappingIds[1]>>
  /\ worlds = [id \in {} |-> 0]
  /\ all = IdleAll
  /\ watcher = IdleWatcher
  /\ now = 0
  /\ flushed = << >>
  /\ resolver = IdleResolver
  /\ plugin = IdlePlugin
  /\ modal = NoModal
  /\ op = NoOp

----------------------------------------------------------------------------
(* The environment: the user and other programs, while no run is in flight
   and no preview is open *)

Resting == run.pc = "idle" /\ ~dry.shown

\* a file is created or saved on the project side
WriteAiFile ==
  /\ Resting /\ aiDir
  /\ \E p \in EditPaths, t \in Times :
       /\ t \in TimesOf(p)
       /\ (p \in DOMAIN aiDisk => aiDisk[p] # t)
       /\ aiDisk' = Put(aiDisk, p, t)
  /\ quiet' = FALSE
  /\ UNCHANGED <<aiDir, obsFolder, obsDisk, store, settings, mapping,
                 conflictModalCallback, deletionConfirmCallback, run, dry>>
  /\ UNCHANGED unitVars

\* a note is created or saved in the vault
WriteObsFile ==
  /\ Resting /\ obsFolder
  /\ \E p \in EditPaths, t \in Times :
       /\ t \in TimesOf(p)
       /\ (p \in DOMAIN obsDisk => obsDisk[p] # t)
       /\ obsDisk' = Put(obsDisk, p, t)
  /\ quiet' = FALSE
  /\ UNCHANGED <<aiDir, aiDisk, obsFolder, store, settings, mapping,
                 conflictModalCallback, deletionConfirmCallback, run, dry>>
  /\ UNCHANGED unitVars

DeleteAiFile ==
  /\ Resting
  /\ \E p \in DOMAIN aiDisk : aiDisk' = MapDelete(aiDisk, p)
  /\ quiet' = FALSE
  /\ UNCHANGED <<aiDir, obsFolder, obsDisk, store, settings, mapping,
                 conflictModalCallback, deletionConfirmCallback, run, dry>>
  /\ UNCHANGED unitVars

DeleteObsFile ==
  /\ Resting
  /\ \E p \in DOMAIN obsDisk : obsDisk' = MapDelete(obsDisk, p)
  /\ quiet' = FALSE
  /\ UNCHANGED <<aiDir, aiDisk, obsFolder, store, settings, mapping,
                 conflictModalCallback, deletionConfirmCallback, run, dry>>
  /\ UNCHANGED unitVars

\* the (empty) project docs directory is removed or created
ToggleAiDir ==
  /\ Resting /\ DOMAIN aiDisk = {}
  /\ aiDir' = ~aiDir
  /\ quiet' = FALSE
  /\ UNCHANGED <<aiDisk, obsFolder, obsDisk, store, settings, mapping,
                 conflictModalCallback, deletionConfirmCallback, run, dry>>
  /\ UNCHANGED unitVars

\* the (empty) vault docs folder is removed
RemoveObsFolder ==
  /\ Resting /\ obsFolder /\ DOMAIN obsDisk = {}
  /\ obsFolder' = FALSE
  /\ quiet' = FALSE
  /\ UNCHANGED <<aiDir, aiDisk, obsDisk, store, settings, mapping,
                 conflictModalCallback, deletionConfirmCallback, run, dry>>
  /\ UNCHANGED unitVars

\* settings tab: one setting is changed, saved and passed to updateSettings
UpdateSettings ==
  /\ Resting
  /\ \E s \in SettingsSpace :
       /\ Cardinality({f \in DOMAIN s : s[f] # settings[f]}) = 1
       /\ <<s.conflictResolution, mapping.conflictResolutionOverride>> \in StrategyConfigs
       /\ <<s.syncDeletions, s.confirmDeletions>> \in DeletionConfigs
       /\ settings' = s
  /\ quiet' = FALSE
  /\ UNCHANGED <<aiDir, aiDisk, obsFolder, obsDisk, store, mapping,
                 conflictModalCallback, deletionConfirmCallback, run, dry>>
  /\ UNCHANGED unitVars

\* a host registers a deletion confirmation dialogue
SetDeletionConfirmCallback ==
  /\ Resting /\ ~deletionConfirmCallback
  /\ deletionConfirmCallback' = TRUE
  /\ quiet' = FALSE
  /\ UNCHANGED <<aiDir, aiDisk, obsFolder, obsDisk, store, settings, mapping,
                 conflictModalCallback, run, dry>>
  /\ UNCHANGED unitVars

----------------------------------------------------------------------------
(* The engine's operations *)

\* the machine state a run works on
Machine(r) ==
  [ai |-> aiDisk, obs |-> obsDisk, folder |-> obsFolder, store |-> store, run |-> r]

\* a segment of the run ends in one of its possible machine states
Commit(outcomes) ==
  \E m \in outcomes :
    /\ aiDisk' = m.ai
    /\ obsDisk' = m.obs
    /\ obsFolder' = m.folder
    /\ store' = m.store
    /\ run' = m.run

\* syncMapping, lines 191-243: validate, list, detect deletions, and go on to
\* the first suspension point or to the end
BeginSyncMapping ==
  /\ IF ~validateAiPath(aiDir)
     THEN /\ run' = [IdleRun EXCEPT !.pc = "done", !.error = TRUE,
                                    !.errors = <<"AI docs path does not exist">>,
                                    !.firstSync = ~store.present,
                                    !.afterQuiet = quiet]
          /\ UNCHANGED <<aiDisk, obsDisk, obsFolder, store>>
     ELSE LET deletions ==
                IF settings.syncDeletions
                THEN detectDeletions(store, aiDisk, obsDisk, mapping.bidirectional)
                ELSE << >>
              m == [Machine([IdleRun EXCEPT
                               !.pc = "running",
                               !.aiFiles = aiDisk, !.obsFiles = obsDisk,
                               !.aiFileMap = aiDisk, !.obsFileMap = obsDisk,
                               !.deletions = deletions,
                               !.firstSync = ~store.present,
                               !.afterQuiet = quiet])
                    EXCEPT !.folder = TRUE]
          IN  IF Len(deletions) > 0
              THEN IF ShouldConfirm
                   THEN Commit({[m EXCEPT !.run.pc = "confirm"]})
                   ELSE Commit(DeletionPass(m, TRUE))
              ELSE Commit(AiLoop(m))
  /\ dry' = NoDryRun
  /\ quiet' = FALSE
  /\ UNCHANGED <<aiDir, settings, mapping, conflictModalCallback,
                 deletionConfirmCallback>>

\* a call of syncMapping while no other invocation is in flight
StartSyncMapping == run.pc = "idle" /\ BeginSyncMapping

SyncStart == StartSyncMapping /\ UNCHANGED unitVars

\* deletionConfirmCallback resolves with the user's answer
ConfirmDeletions ==
  /\ run.pc = "confirm"
  /\ \E shouldDelete \in BOOLEAN :
       Commit(DeletionPass(
         Machine([run EXCEPT !.pc = "running",
                             !.confirmations = Append(@, shouldDelete)]),
         shouldDelete))
  /\ UNCHANGED <<aiDir, settings, mapping, conflictModalCallback,
                 deletionConfirmCallback, dry, quiet>>
  /\ UNCHANGED unitVars

\* conflictModalCallback resolves with userDecision for the path the
\* AI -> Obsidian loop stands at, and the run goes on
ResumeSyncMapping(userDecision) ==
  /\ run.pc = "conflict"
  /\ LET p == Listing(run.aiFileMap)[run.idx]
         m == Machine([run EXCEPT !.pc = "running",
                                  !.asked = Append(@, <<p, userDecision>>)])
     IN  Commit(UNION {AiLoop(Advance(s)) :
                       s \in ApplyResolution(m, p, resolveWithUserChoice(userDecision))})
  /\ UNCHANGED <<aiDir, settings, mapping, conflictModalCallback,
                 deletionConfirmCallback, dry, quiet>>

ResolveConflict ==
  /\ \E userDecision \in Decisions : ResumeSyncMapping(userDecision)
  /\ UNCHANGED unitVars

\* the caller has taken the SyncResult
ReturnSyncResult ==
  /\ run.pc = "done"
  /\ quiet' = run.success
  /\ run' = IdleRun
  /\ UNCHANGED <<aiDir, aiDisk, obsFolder, obsDisk, store, settings, mapping,
                 conflictModalCallback, deletionConfirmCallback, dry>>

SyncReturn == ReturnSyncResult /\ UNCHANGED unitVars

\* dryRunMapping, shown in the DryRunModal
DryRunMapping ==
  /\ Resting
  /\ LET r == dryRunMapping(aiDir, Machine(run))
     IN  Commit({r.m}) /\ dry' = r.result
  /\ UNCHANGED <<aiDir, settings, mapping, conflictModalCallback,
                 deletionConfirmCallback, quiet>>
  /\ UNCHANGED unitVars

\* the DryRunModal is closed without syncing
DryRunClose ==
  /\ dry.shown /\ run.pc = "idle"
  /\ dry' = NoDryRun
  /\ UNCHANGED <<aiDir, aiDisk, obsFolder, obsDisk, store, settings, mapping,
                 conflictModalCallback, deletionConfirmCallback, run, quiet>>
  /\ UNCHANGED unitVars

Next ==
  \/ WriteAiFile \/ WriteObsFile \/ DeleteAiFile \/ DeleteObsFile
  \/ ToggleAiDir \/ RemoveObsFolder
  \/ UpdateSettings \/ SetDeletionConfirmCallback
  \/ SyncStart \/ ConfirmDeletions \/ ResolveConflict \/ SyncReturn
  \/ DryRunMapping \/ DryRunClose

Spec == Init /\ [][Next]_vars

TypeOK ==
  /\ aiDir \in BOOLEAN /\ obsFolder \in BOOLEAN
  /\ aiDisk \in Trees /\ obsDisk \in Trees
  /\ store \in States
  /\ run.pc \in {"idle", "confirm", "conflict", "done"}

----------------------------------------------------------------------------
(* Properties *)

EffectiveStrategy == getEffectiveConflictResolution(mapping, settings)

Finished == run.pc = "done" /\ ~run.error

\* the result entries of run r for path p with the given action
Entries(r, p, action) ==
  {i \in 1..Len(r.files) : r.files[i].file = p /\ r.files[i].action = action}

DeleteEntries(r) == {i \in 1..Len(r.files) : r.files[i].action = "delete"}

C2_DeletionSymmetry ==
  /\ [][\A X \in PathSet :
          ( /\ mapping.bidirectional /\ settings.syncDeletions
            /\ store.present /\ X \in store.aiFiles /\ X \in store.obsFiles
            /\ (X \in DOMAIN aiDisk) # (X \in DOMAIN obsDisk)
            /\ run.pc \in {"idle", "confirm"}
            /\ run'.pc \in {"conflict", "done"} /\ ~run'.error
            /\ run'.confirmations \in {<< >>, <<TRUE>>}
            /\ \A i \in Entries(run', X, "delete") : run'.files[i].success )
          => ( /\ X \notin DOMAIN aiDisk' /\ X \notin DOMAIN obsDisk'
               /\ Entries(run', X, "delete") # {} )]_vars
  /\ [](mapping.bidirectional =>
          \A i \in DeleteEntries(run) :
             run.files[i].success =>
               /\ run.files[i].file \notin DOMAIN aiDisk
               /\ run.files[i].file \notin DOMAIN obsDisk)

\* a confirmed run that removed one path from the vault and one from the
\* project
C2_Witness ==
  /\ run.pc = "done" /\ mapping.bidirectional /\ run.confirmations = <<TRUE>>
  /\ \E i, j \in DeleteEntries(run) :
       /\ run.files[i].direction = "ai-to-obs" /\ run.files[i].success
       /\ run.files[j].direction = "obs-to-ai" /\ run.files[j].success
  /\ DOMAIN aiDisk = {} /\ DOMAIN obsDisk = {}

\* the one-sided paths of the run's two listings
OnlyAi(r) == DOMAIN r.aiFiles \ DOMAIN r.obsFiles
OnlyObs(r) == DOMAIN r.obsFiles \ DOMAIN r.aiFiles

NothingDeleted ==
  /\ run.filesDeleted = 0 /\ DeleteEntries(run) = {}
  /\ DOMAIN run.aiFiles \subseteq DOMAIN aiDisk
  /\ DOMAIN run.obsFiles \subseteq DOMAIN obsDisk

CopiedOver(p, direction) ==
  /\ \E i \in Entries(run, p, "copy") : run.files[i].direction = direction
  /\ (\A i \in Entries(run, p, "copy") : run.files[i].success) =>
       (p \in DOMAIN aiDisk /\ p \in DOMAIN obsDisk /\ aiDisk[p] = obsDisk[p])

\* C3 as stated: with no prior state a run deletes nothing and copies every
\* one-sided file to the other side.
C3_FirstSyncCopiesEveryOneSided ==
  (Finished /\ run.firstSync) =>
    /\ NothingDeleted
    /\ \A p \in OnlyAi(run) : CopiedOver(p, "ai-to-obs")
    /\ \A p \in OnlyObs(run) : CopiedOver(p, "obs-to-ai")

\* C3 amended: with no prior state a run that passes validation deletes
\* nothing on either side, whether deletion sync is on or off; a one-sided
\* file is copied to the other side, except that a file only in the vault
\* stays where it is, uncopied, when the mapping is unidirectional
\* project-to-vault.
C3_FirstSyncSafety ==
  (Finished /\ run.firstSync) =>
    /\ NothingDeleted
    /\ \A p \in OnlyAi(run) : CopiedOver(p, "ai-to-obs")
    /\ \A p \in OnlyObs(run) :
         IF mapping.bidirectional \/ mapping.syncDirection = "obs-to-ai"
         THEN CopiedOver(p, "obs-to-ai")
         ELSE /\ \A i \in 1..Len(run.files) : run.files[i].file # p
              /\ p \notin DOMAIN aiDisk
              /\ obsDisk[p] = run.obsFiles[p]

\* a first sync with deletion sync on, one file only in the project and one
\* only in the vault
C3_Witness ==
  /\ Finished /\ run.firstSync /\ settings.syncDeletions /\ run.success
  /\ OnlyAi(run) # {} /\ OnlyObs(run) # {}

\* the side a result entry's deletion removed the file from
DeletedOn(entry) == IF entry.direction = "ai-to-obs" THEN "obsidian" ELSE "ai"

SourceSide == IF mapping.syncDirection = "obs-to-ai" THEN "obsidian" ELSE "ai"

\* C4: in a unidirectional mapping no run deletes a file on the mapping's
\* source side.
C4_SinkDeletionNeverPropagates ==
  ~mapping.bidirectional =>
    \A i \in DeleteEntries(run) : DeletedOn(run.files[i]) # SourceSide

\* C5: with confirm-deletions on, a run deletes (or tries to delete) a file
\* only after the confirmation dialogue answered yes.
C5_ConfirmationGatesDeletion ==
  (settings.confirmDeletions /\ DeleteEntries(run) # {}) =>
    run.confirmations = <<TRUE>>

\* the outcome the classification rule gives path p from the run's two listings
Classified(r, p) ==
  IF p \notin DOMAIN r.obsFiles THEN <<"copy", "ai-to-obs">>
  ELSE IF p \notin DOMAIN r.aiFiles THEN <<"copy", "obs-to-ai">>
  ELSE IF Abs(r.aiFiles[p] - r.obsFiles[p]) < 1000 THEN <<"skip", "ai-to-obs">>
  ELSE IF r.aiFiles[p] > r.obsFiles[p] THEN <<"update", "ai-to-obs">>
  ELSE <<"update", "obs-to-ai">>

\* the worked scenario: a.md newer in the project, b.md identical on both
\* sides, c.md only in the vault
ScenarioRuns ==
  LET ai == ("a.md" :> 2000) @@ ("b.md" :> 1000)
      obs == ("a.md" :> 1000) @@ ("b.md" :> 1000) @@ ("c.md" :> 1000)
  IN  AiLoop([ai |-> ai, obs |-> obs, folder |-> TRUE, store |-> NoState,
              run |-> [IdleRun EXCEPT !.pc = "running",
                                      !.aiFiles = ai, !.obsFiles = obs,
                                      !.aiFileMap = ai, !.obsFileMap = obs]])

\* the runs the classification is about
ClassifiedRun ==
  /\ Finished /\ run.errors = << >> /\ run.deletions = << >>
  /\ mapping.bidirectional /\ EffectiveStrategy = "newer-wins"

ListedPaths(r) == DOMAIN r.aiFiles \cup DOMAIN r.obsFiles

\* every listed path has exactly one result, the one Classified gives it
OneOutcomeEach(r) ==
  /\ Len(r.files) = Cardinality(ListedPaths(r))
  /\ \A p \in ListedPaths(r) :
       \E i \in 1..Len(r.files) :
         /\ r.files[i].file = p /\ r.files[i].success
         /\ <<r.files[i].action, r.files[i].direction>> = Classified(r, p)

\* the versions of p the run listed
ListedVersions(r, p) ==
  {r.aiFiles[q] : q \in {p} \cap DOMAIN r.aiFiles}
  \cup {r.obsFiles[q] : q \in {p} \cap DOMAIN r.obsFiles}

\* both sides hold the newer of the listed versions of p
NewerOnBothSides(r, p) ==
  /\ p \in DOMAIN aiDisk /\ p \in DOMAIN obsDisk
  /\ aiDisk[p] = obsDisk[p]
  /\ aiDisk[p] \in ListedVersions(r, p)
  /\ \A v \in ListedVersions(r, p) : aiDisk[p] >= v

\* C6 as stated: in a bidirectional newer-wins run with no deletions and no
\* I/O error every listed path gets exactly one outcome (copy, skip or update
\* as classified), and afterwards both sides hold the same paths, each with
\* the newer version.
C6_NewerVersionEverywhere ==
  ClassifiedRun =>
    /\ OneOutcomeEach(run)
    /\ DOMAIN aiDisk = ListedPaths(run) /\ DOMAIN obsDisk = ListedPaths(run)
    /\ \A p \in ListedPaths(run) : NewerOnBothSides(run, p)

\* C6 amended: a bidirectional newer-wins run with no deletions and no I/O
\* error gives every path of the two listings exactly one result: only in the
\* project -> copy to the vault; only in the vault -> copy to the project; on
\* both less than 1000 ms apart -> skip; on both otherwise -> update from the
\* newer to the older side. Afterwards both sides hold the same paths, a
\* copied or updated path with the newer version on both sides, and a skipped
\* path with each side's own version as it was (the two may differ by up to
\* 999 ms). No dialogue is raised. The scenario gives update a.md toward the
\* vault, skip b.md, copy c.md toward the project: two actions, one skip.
C6_Classification ==
  ClassifiedRun =>
    /\ OneOutcomeEach(run)
    /\ DOMAIN aiDisk = ListedPaths(run) /\ DOMAIN obsDisk = ListedPaths(run)
    /\ \A p \in ListedPaths(run) :
         IF Classified(run, p)[1] = "skip"
         THEN aiDisk[p] = run.aiFiles[p] /\ obsDisk[p] = run.obsFiles[p]
         ELSE NewerOnBothSides(run, p)
    /\ run.asked = << >>
    /\ \A m \in ScenarioRuns :
         m.run.errors = << >> =>
           /\ m.run.files = << FileResult("a.md", "update", "ai-to-obs", TRUE),
                               FileResult("b.md", "skip", "ai-to-obs", TRUE),
                               FileResult("c.md", "copy", "obs-to-ai", TRUE) >>
           /\ m.run.filesCopied = 2 /\ m.run.filesSkipped = 1
           /\ m.run.asked = << >> /\ m.run.pc = "done"
           /\ m.ai = m.obs

\* a run that updated one path toward the project because the vault's
\* version was newer, and skipped the other with the two sides 999 ms apart
C6_Witness ==
  /\ ClassifiedRun
  /\ \E i, j \in 1..Len(run.files) :
       /\ run.files[i].action = "update" /\ run.files[i].direction = "obs-to-ai"
       /\ run.files[j].action = "skip"
       /\ aiDisk[run.files[j].file] # obsDisk[run.files[j].file]

\* C7: a dry run changes no file on either side, neither the project
\* directory nor the vault folder, not the sync state, and calls neither the
\* conflict modal nor the deletion confirmation, whatever the mapping and the
\* settings.
C7_DryRunNoIO ==
  [][(dry' # dry /\ dry'.shown) =>
       /\ UNCHANGED <<aiDir, aiDisk, obsFolder, obsDisk, store>>
       /\ UNCHANGED run]_vars

\* a preview with a planned action and a planned deletion, shown while the
\* vault folder is still missing and the sync state is as it was
C7_Witness ==
  /\ dry.shown /\ dry.errors = 0
  /\ Len(dry.plannedActions) > 0 /\ Len(dry.plannedDeletions) > 0
  /\ ~obsFolder /\ store.present /\ run = IdleRun

\* the copies, updates and deletions of a preview and of a run
Planned(d) ==
  {<<a.file, a.action, a.direction>> :
     a \in {x \in Range(d.plannedActions) : x.action \in {"copy", "update"}}}
  \cup
  {<<x.relativePath, "delete",
     IF x.existsIn = "obsidian" THEN "ai-to-obs" ELSE "obs-to-ai">> :
     x \in Range(d.plannedDeletions)}

Executed(r) ==
  {<<f.file, f.action, f.direction>> :
     f \in {x \in Range(r.files) : x.action # "skip"}}

\* C8: under a strategy that needs no dialogue and with the deletions
\* accepted, a run started from the preview, on the trees and the sync state
\* the preview saw, that meets no error executes exactly the copies, updates
\* and deletions the preview planned.
C8_DryRunFidelity ==
  [][( /\ dry.shown /\ run.pc = "idle"
       /\ EffectiveStrategy # "always-ask"
       /\ run'.pc = "done" /\ ~run'.error /\ run'.errors = << >> )
     => Executed(run') = Planned(dry)]_vars

AskedPaths(r) == [k \in 1..Len(r.asked) |-> r.asked[k][1]]

\* the result entries of run r for path p, deletions aside
Operations(r, p) ==
  {i \in 1..Len(r.files) : r.files[i].file = p /\ r.files[i].action # "delete"}

\* C9: the conflict modal is called only under the effective strategy
\* always-ask, once per conflicting path, one path at a time in listing
\* order, and what the run does to the path is what the answer names: use-ai
\* -> update toward the vault, use-obsidian -> update toward the project
\* (bidirectional only, otherwise nothing), skip -> no write (stated for the
\* runs that meet no I/O error).
C9_ConflictChannel ==
  /\ run.asked # << >> => EffectiveStrategy = "always-ask"
  /\ EffectiveStrategy = "always-ask" =>
       /\ AskedPaths(run) = SubSeq(run.conflicts, 1, Len(run.asked))
       /\ Len(run.conflicts) - Len(run.asked) = (IF run.pc = "conflict" THEN 1 ELSE 0)
  /\ (run.pc = "done" /\ run.errors = << >>) =>
       \A k \in 1..Len(run.asked) :
         LET p == run.asked[k][1]
             d == run.asked[k][2]
             expected ==
               IF d = "use-ai" THEN <<"update", "ai-to-obs">>
               ELSE IF d = "use-obsidian" /\ mapping.bidirectional
               THEN <<"update", "obs-to-ai">>
               ELSE <<"skip", "ai-to-obs">>
         IN  /\ Cardinality(Operations(run, p)) = 1
             /\ \A i \in Operations(run, p) :
                  <<run.files[i].action, run.files[i].direction>> = expected
             /\ expected[1] = "skip" =>
                  /\ aiDisk[p] = run.aiFiles[p]
                  /\ obsDisk[p] = run.obsFiles[p]

RunStep == run' # run

ProjectToVault == ~mapping.bidirectional /\ mapping.syncDirection = "ai-to-obs"

VaultToProject == ~mapping.bidirectional /\ mapping.syncDirection = "obs-to-ai"

\* C11: in a unidirectional vault-to-project mapping no run creates or
\* overwrites a vault file from the project side: every copy and update of
\* the run goes from the vault to the project.
C11_VaultToProjectFrame ==
  VaultToProject =>
    \A i \in 1..Len(run.files) :
      (run.files[i].success /\ run.files[i].action \in {"copy", "update"}) =>
        run.files[i].direction = "obs-to-ai"

\* C12: in a unidirectional project-to-vault mapping no step of a run
\* creates, overwrites or deletes a project file: the project tree is
\* unchanged, every result entry (copy, update, skip, delete) is directed
\* toward the vault, and every detected deletion targets the vault.
C12_ProjectToVaultFrame ==
  [][(ProjectToVault /\ RunStep) =>
       /\ aiDisk' = aiDisk /\ aiDir' = aiDir
       /\ \A i \in 1..Len(run'.files) : run'.files[i].direction = "ai-to-obs"
       /\ \A i \in 1..Len(run'.deletions) :
            run'.deletions[i].existsIn = "obsidian"]_vars

\* a project-to-vault run with deletion sync on and a prior snapshot, under
\* obsidian-wins, that met a conflict with the vault's version newer and
\* left the project's older version alone
C12_Witness ==
  /\ ProjectToVault /\ run.pc = "done" /\ settings.syncDeletions
  /\ ~run.firstSync /\ EffectiveStrategy = "obsidian-wins"
  /\ \E p \in Range(run.conflicts) :
       /\ run.aiFiles[p] < run.obsFiles[p]
       /\ aiDisk[p] = run.aiFiles[p] /\ obsDisk[p] = run.obsFiles[p]

\* C13: every run that ends without a fatal top-level error has overwritten
\* the mapping's snapshot with the file-state lists built in that run,
\* whatever the settings in force.
C13_SnapshotOverwritten ==
  [][(run.pc # "done" /\ run'.pc = "done" /\ ~run'.error) =>
       store' = updateState(buildFileState(run'.aiFiles, aiDisk'),
                            buildFileState(run'.obsFiles, obsDisk'))]_vars

\* C17: when the project docs directory is missing, syncMapping returns at
\* once with success = false, the top-level error set and no file result,
\* having changed no file on either side, neither the project directory nor
\* the vault folder, nor the snapshot, and having raised no dialogue.
C17_ConfigErrorNoSideEffects ==
  [][(run.pc = "idle" /\ RunStep /\ ~aiDir) =>
       /\ run'.pc = "done" /\ run'.error /\ ~run'.success
       /\ Len(run'.errors) = 1 /\ run'.files = << >>
       /\ run'.filesCopied = 0 /\ run'.filesSkipped = 0 /\ run'.filesDeleted = 0
       /\ run'.asked = << >> /\ run'.confirmations = << >>
       /\ UNCHANGED <<aiDir, aiDisk, obsFolder, obsDisk, store>>]_vars

\* a failed run with the vault folder still missing and the snapshot kept,
\* although deletion sync is on
C17_Witness ==
  /\ run.pc = "done" /\ run.error /\ ~aiDir
  /\ ~obsFolder /\ store.present /\ store.aiFiles # {} /\ settings.syncDeletions

FailedEntries(r) == {i \in 1..Len(r.files) : ~r.files[i].success}

HasEntry(r, p) == \E i \in 1..Len(r.files) : r.files[i].file = p

\* C18: in a run that passed validation every failed copy, update or delete
\* is recorded in its path's result entry (success = false) and once in the
\* errors list; the paths after it are still processed (every path of the
\* project listing has a result entry, and so has every vault-only path when
\* the mapping is bidirectional or vault-to-project); and in every run the
\* success flag is false exactly when the errors list is not empty.
C18_PerFileErrorIsolation ==
  run.pc = "done" =>
    /\ run.success <=> (run.errors = << >>)
    /\ ~run.error =>
         /\ Len(run.errors) = Cardinality(FailedEntries(run))
         /\ \A i \in FailedEntries(run) :
              /\ run.files[i].file \in Range(run.errors)
              /\ run.files[i].action \in {"copy", "update", "delete"}
         /\ \A p \in DOMAIN run.aiFiles : HasEntry(run, p)
         /\ (mapping.bidirectional \/ mapping.syncDirection = "obs-to-ai") =>
              \A p \in DOMAIN run.obsFiles : HasEntry(run, p)

\* a run in which one path failed and a later path was copied
C18_Witness ==
  /\ run.pc = "done" /\ ~run.error /\ ~run.success
  /\ \E i, j \in 1..Len(run.files) :
       /\ i < j /\ ~run.files[i].success
       /\ run.files[j].success /\ run.files[j].action = "copy"
       /\ run.files[j].file # run.files[i].file

SharedPaths(r) == DOMAIN r.aiFileMap \cap DOMAIN r.obsFileMap

\* C19: compareFileTimes gives "same" exactly when the two times are less
\* than 1000 ms apart, and otherwise reports the side with the larger time
\* as newer (999 ms apart: same; 1000 ms apart: newer). In a run, a shared
\* path less than 1000 ms apart is skipped without a conflict and left as it
\* is on both sides; a shared path 1000 ms or more apart is a conflict, and
\* in a vault-to-project mapping it is updated toward the project when the
\* vault's time is the larger.
C19_ToleranceBoundary ==
  /\ \A a, o \in Times :
       /\ compareFileTimes(a, o) = "same" <=> Abs(a - o) < 1000
       /\ compareFileTimes(a, o) = "ai-newer" <=> a - o >= 1000
       /\ compareFileTimes(a, o) = "obs-newer" <=> o - a >= 1000
  /\ compareFileTimes(1999, 1000) = "same"
  /\ compareFileTimes(1000, 2000) = "obs-newer"
  /\ (run.pc = "done" /\ ~run.error) =>
       \A p \in SharedPaths(run) :
         LET a == run.aiFileMap[p]
             o == run.obsFileMap[p]
         IN  /\ Abs(a - o) < 1000 =>
                  /\ p \notin Range(run.conflicts)
                  /\ \A i \in 1..Len(run.files) :
                       run.files[i].file = p =>
                         /\ run.files[i].action = "skip"
                         /\ run.files[i].direction = "ai-to-obs"
                  /\ Cardinality(Entries(run, p, "skip")) = 1
                  /\ aiDisk[p] = a /\ obsDisk[p] = o
             /\ Abs(a - o) >= 1000 =>
                  /\ p \in Range(run.conflicts)
                  /\ (VaultToProject /\ o > a) =>
                       \E i \in Entries(run, p, "update") :
                         run.files[i].direction = "obs-to-ai"

\* a run over one path 999 ms apart, skipped, and one path 1000 ms apart,
\* a conflict
C19_Witness ==
  /\ run.pc = "done" /\ ~run.error
  /\ \E p, q \in SharedPaths(run) :
       /\ Abs(run.aiFileMap[p] - run.obsFileMap[p]) = 999
       /\ Abs(run.aiFileMap[q] - run.obsFileMap[q]) = 1000
       /\ p \notin Range(run.conflicts) /\ q \in Range(run.conflicts)

----------------------------------------------------------------------------
(* sync-engine.ts: syncAll over the settings' mappings, with the mapping
   list edited from the settings tab.  The engine's variables hold the
   mapping syncMapping is working on; every other mapping rests in worlds. *)

engineVars ==
  <<aiDir, aiDisk, obsFolder, obsDisk, store, settings, mapping,
    conflictModalCallback, deletionConfirmCallback, run, dry, quiet>>

watcherVars == <<watcher, now, flushed>>

\* the trees of a mapping in a multi-mapping run: at most one file
AllTrees == {EmptyTree} \cup {[p \in {"a.md"} |-> t] : t \in {1000, 2000}}

AllMappings ==
  {[bidirectional |-> TRUE, syncDirection |-> "ai-to-obs",
    conflictResolutionOverride |-> o] : o \in {Unset, "always-ask"}}

\* mappings that have never been synced: no snapshot yet
AllWorlds ==
  {World(TRUE, m, d, ai, TRUE, obs, NoState) :
     m \in AllMappings, d \in BOOLEAN, ai \in AllTrees,
     obs \in {EmptyTree, [p \in {"a.md"} |-> 1000]}}

\* no mapping is being synced
NoWorld ==
  World(FALSE, CHOOSE m \in AllMappings : m.conflictResolutionOverride = Unset,
        FALSE, EmptyTree, FALSE, EmptyTree, NoState)

\* the mapping lists a configuration file can hold
ImportedMappings ==
  {<< >>, <<"m1">>, <<"m2">>, <<"m1", "m2">>, <<"m2", "m1">>}

InitAll ==
  /\ mappings = MappingIds
  /\ worlds \in [MappingIdSet -> AllWorlds]
  /\ \A id \in MappingIdSet : worlds[id].aiDir \/ worlds[id].aiDisk = EmptyTree
  /\ settings = [conflictResolution |-> "newer-wins", syncDeletions |-> TRUE,
                 confirmDeletions |-> TRUE]
  /\ aiDir = NoWorld.aiDir /\ aiDisk = NoWorld.aiDisk
  /\ obsFolder = NoWorld.obsFolder /\ obsDisk = NoWorld.obsDisk
  /\ store = NoWorld.store /\ mapping = NoWorld.mapping
  /\ conflictModalCallback = TRUE
  /\ deletionConfirmCallback = FALSE
  /\ run = IdleRun
  /\ dry = NoDryRun
  /\ quiet = FALSE
  /\ all = IdleAll
  /\ watcher = IdleWatcher
  /\ now = 0
  /\ flushed = << >>
  /\ resolver = IdleResolver
  /\ plugin = IdlePlugin
  /\ modal = NoModal
  /\ op = NoOp

\* settings.mappings.filter((m) => m.syncEnabled)
EnabledMappings(ms, w) == SelectSeq(ms, LAMBDA id : w[id].syncEnabled)

\* a loop over the enabled mappings that gives up after a failed result
HasNextUntilFailure(a) ==
  /\ Len(a.results) < Len(a.enabledMappings)
  /\ \A i \in 1..Len(a.results) : a.results[i].success

\* for (const mapping of enabledMappings): another mapping is left
HasNext(a) == Len(a.results) < Len(a.enabledMappings)

\* the SyncResult syncAll pushes: syncMapping's own, or the one built in
\* syncAll's catch when syncMapping has thrown
SyncResultOf(id, r) ==
  IF r.pc = "done"
  THEN [mapping |-> id, success |-> r.success, error |-> r.error,
        files |-> r.files, errors |-> r.errors, caught |-> FALSE]
  ELSE [mapping |-> id, success |-> FALSE, error |-> TRUE,
        files |-> << >>, errors |-> <<"thrown">>, caught |-> TRUE]

\* syncAll, lines 159-160
SyncAllStart ==
  /\ all.pc \in {"idle", "returned"}
  /\ all' = [pc |-> "loop", enabledMappings |-> EnabledMappings(mappings, worlds),
             current |-> NoMapping, results |-> << >>]
  /\ UNCHANGED <<engineVars, mappings, worlds, watcherVars, resolver, sideVars>>

\* syncAll, line 162: the loop takes the next enabled mapping
SyncAllNext ==
  /\ all.pc = "loop" /\ all.current = NoMapping /\ HasNext(all)
  /\ LET id == all.enabledMappings[Len(all.results) + 1]
         w == worlds[id]
     IN  /\ all' = [all EXCEPT !.current = id]
         /\ aiDir' = w.aiDir /\ aiDisk' = w.aiDisk
         /\ obsFolder' = w.obsFolder /\ obsDisk' = w.obsDisk
         /\ store' = w.store /\ mapping' = w.mapping
  /\ UNCHANGED <<settings, conflictModalCallback, deletionConfirmCallback, run,
                 dry, quiet, mappings, worlds, watcherVars, resolver, sideVars>>

\* syncAll, line 164: await this.syncMapping(mapping)
SyncAllCall ==
  /\ all.pc = "loop" /\ all.current # NoMapping
  /\ SyncStart

\* syncAll, lines 164-183: the result is pushed, or the catch's result when
\* syncMapping has thrown
SyncAllPush ==
  /\ all.pc = "loop" /\ all.current # NoMapping
  /\ run.pc \in {"done", "thrown"}
  /\ all' = [all EXCEPT !.results = Append(@, SyncResultOf(all.current, run)),
                        !.current = NoMapping]
  /\ worlds' = [worlds EXCEPT ![all.current] =
                  World(@.syncEnabled, mapping, aiDir, aiDisk, obsFolder,
                        obsDisk, store)]
  /\ aiDir' = NoWorld.aiDir /\ aiDisk' = NoWorld.aiDisk
  /\ obsFolder' = NoWorld.obsFolder /\ obsDisk' = NoWorld.obsDisk
  /\ store' = NoWorld.store /\ mapping' = NoWorld.mapping
  /\ run' = IdleRun
  /\ UNCHANGED <<settings, conflictModalCallback, deletionConfirmCallback, dry,
                 quiet, mappings, watcherVars, resolver, sideVars>>

\* syncAll, line 185: return results
SyncAllReturn ==
  /\ all.pc = "loop" /\ all.current = NoMapping /\ ~HasNext(all)
  /\ all' = [all EXCEPT !.pc = "returned"]
  /\ UNCHANGED <<engineVars, mappings, worlds, watcherVars, resolver, sideVars>>

\* MappingManager.delete: the mapping leaves settings.mappings; the sync
\* state stored under its id is not touched
MappingDelete(id) ==
  /\ id \in Range(mappings)
  /\ mappings' = SelectSeq(mappings, LAMBDA x : x # id)
  /\ UNCHANGED <<engineVars, worlds, all, watcherVars, resolver, sideVars>>

\* MappingManager.toggleEnabled
ToggleEnabled(id) ==
  /\ id \in Range(mappings)
  /\ all.pc # "loop"
  /\ worlds' = [worlds EXCEPT ![id].syncEnabled = ~@]
  /\ UNCHANGED <<engineVars, mappings, all, watcherVars, resolver, sideVars>>

\* importConfiguration: settings.mappings is replaced by the file's list,
\* each mapping under the id it was exported with
ImportConfiguration ==
  /\ all.pc # "loop"
  /\ \E ms \in ImportedMappings : ms # mappings /\ mappings' = ms
  /\ UNCHANGED <<engineVars, worlds, all, watcherVars, resolver, sideVars>>

NextAll ==
  \/ SyncAllStart \/ SyncAllNext \/ SyncAllCall \/ ResolveConflict
  \/ SyncAllPush \/ SyncAllReturn
  \/ (\E id \in MappingIdSet : MappingDelete(id))
  \/ (\E id \in MappingIdSet : ToggleEnabled(id))
  \/ ImportConfiguration

SpecAll == InitAll /\ [][NextAll]_vars

\* the sync state stored under a mapping id (SyncStateManager.states)
StateOf(id) == IF all.current = id THEN store ELSE worlds[id].store

\* C14: the snapshot store holds entries only for mappings that exist: once
\* a mapping has been deleted no snapshot is stored under its id, so a
\* mapping that later appears under that id starts without a snapshot.
C14_SnapshotDeletedWithMapping ==
  \A id \in MappingIdSet : StateOf(id).present => id \in Range(mappings)

\* C16: syncMapping never throws into syncAll, and syncAll returns exactly
\* one result per mapping that was enabled at the call, in the order of the
\* mapping list: while the loop runs the results are those of the first
\* mappings in order, none of them built in syncAll's catch, and at the
\* return there are as many results as enabled mappings, whether or not an
\* earlier mapping failed.
C16_FailureContainment ==
  /\ run.pc # "thrown"
  /\ all.pc \in {"loop", "returned"} =>
       /\ Len(all.results) <= Len(all.enabledMappings)
       /\ \A i \in 1..Len(all.results) :
            /\ all.results[i].mapping = all.enabledMappings[i]
            /\ ~all.results[i].caught
       /\ \A i, j \in 1..Len(all.enabledMappings) :
            i # j => all.enabledMappings[i] # all.enabledMappings[j]
  /\ all.pc = "returned" => Len(all.results) = Len(all.enabledMappings)

\* syncAll has returned two results: the first mapping failed (its project
\* directory is missing, or a copy failed), the second was synced after it
\* and copied a file
C16_Witness ==
  /\ all.pc = "returned" /\ Len(all.results) = 2
  /\ ~all.results[1].success
  /\ all.results[2].success
  /\ \E i \in 1..Len(all.results[2].files) :
       all.results[2].files[i].action = "copy"

----------------------------------------------------------------------------
(* file-watcher.ts: FileWatcher, with time counted in ticks *)

\* settings.debounceMs, in ticks
DebounceTicks == 2

\* the clock stops here
MaxTime == 3

\* events handled in one behaviour
MaxEvents == 3

\* eventKey = `${mapping.id}:${source}:${relativePath}`
EventKeys == {<<MappingIds[1], source, "a.md">> : source \in {"ai", "obsidian"}}

EventTypes == {"add", "change"}

Callbacks == {"handleFileChanges", "other"}

FileChangeEvent(key, type) == [key |-> key, type |-> type]

KeysOf(events) == {events[i].key : i \in 1..Len(events)}

\* an array push in place of the Map: a second event of a key is a second entry
ArrayPush(events, event) == Append(events, event)

\* Map.set(eventKey, event): a known key keeps its place and takes the new
\* value, a new key goes to the end
MapSet(events, event) ==
  IF event.key \in KeysOf(events)
  THEN [i \in 1..Len(events) |->
          IF events[i].key = event.key THEN event ELSE events[i]]
  ELSE Append(events, event)

\* flushPendingEvents, lines 273-280: every callback is called, a throwing
\* one is logged and the loop goes on
Notify(callbacks, throwing) == callbacks

InitWatcher ==
  /\ watcher = IdleWatcher
  /\ now = 0
  /\ flushed = << >>
  /\ mappings = <<MappingIds[1]>>
  /\ worlds = [id \in {} |-> 0]
  /\ all = IdleAll
  /\ resolver = IdleResolver
  /\ plugin = IdlePlugin
  /\ modal = NoModal
  /\ op = NoOp
  /\ aiDir = NoWorld.aiDir /\ aiDisk = NoWorld.aiDisk
  /\ obsFolder = NoWorld.obsFolder /\ obsDisk = NoWorld.obsDisk
  /\ store = NoWorld.store /\ mapping = NoWorld.mapping
  /\ settings = [conflictResolution |-> "newer-wins", syncDeletions |-> FALSE,
                 confirmDeletions |-> TRUE]
  /\ conflictModalCallback = TRUE
  /\ deletionConfirmCallback = FALSE
  /\ run = IdleRun
  /\ dry = NoDryRun
  /\ quiet = FALSE

restOfWatcher == <<engineVars, mappings, worlds, all, resolver, sideVars>>

\* onFileChange
OnFileChange(callback) ==
  /\ callback \notin Range(watcher.callbacks)
  /\ watcher' = [watcher EXCEPT !.callbacks = Append(@, callback)]
  /\ UNCHANGED <<now, flushed, restOfWatcher>>

\* offFileChange
OffFileChange(callback) ==
  /\ callback \in Range(watcher.callbacks)
  /\ watcher' = [watcher EXCEPT
                   !.callbacks = SelectSeq(@, LAMBDA c : c # callback)]
  /\ UNCHANGED <<now, flushed, restOfWatcher>>

\* start: the watchers of the enabled mappings are opened
Start ==
  /\ ~watcher.isWatching
  /\ watcher' = [watcher EXCEPT !.isWatching = TRUE]
  /\ UNCHANGED <<now, flushed, restOfWatcher>>

\* stop, lines 99-103: the timer is cleared; the call then awaits the close
\* of each watcher, which still delivers events meanwhile
StopBegin ==
  /\ watcher.isWatching /\ ~watcher.stopping
  /\ watcher' = [watcher EXCEPT !.debounceTimer = NoTimer, !.stopping = TRUE]
  /\ UNCHANGED <<now, flushed, restOfWatcher>>

\* stop, lines 110-112: the watchers are closed, what is pending is dropped;
\* a timer set while the watchers were closing is left running
StopEnd ==
  /\ watcher.stopping
  /\ watcher' = [watcher EXCEPT !.pendingEvents = NoEvents,
                                !.isWatching = FALSE,
                                !.stopping = FALSE,
                                !.burst = << >>]
  /\ UNCHANGED <<now, flushed, restOfWatcher>>

\* handleFileEvent, called by a watcher's "add" or "change" listener
HandleFileEvent(key, type) ==
  /\ watcher.isWatching
  /\ watcher.handled < MaxEvents
  /\ watcher' = [watcher EXCEPT
                   !.pendingEvents = MapSet(@, FileChangeEvent(key, type)),
                   !.debounceTimer = now + DebounceTicks,
                   !.burst = Append(@, [key |-> key, type |-> type, at |-> now]),
                   !.handled = @ + 1]
  /\ UNCHANGED <<now, flushed, restOfWatcher>>

\* the debounce timer is due: flushPendingEvents
TimerFire ==
  /\ watcher.debounceTimer # NoTimer
  /\ now = watcher.debounceTimer
  /\ IF Len(watcher.pendingEvents) = 0
     THEN /\ watcher' = [watcher EXCEPT !.debounceTimer = NoTimer]
          /\ flushed' = flushed
     ELSE \E throwing \in SUBSET Range(watcher.callbacks) :
            /\ watcher' = [watcher EXCEPT !.debounceTimer = NoTimer,
                                          !.pendingEvents = NoEvents,
                                          !.burst = << >>]
            /\ flushed' = Append(flushed,
                                 [at |-> now, events |-> watcher.pendingEvents,
                                  registered |-> watcher.callbacks,
                                  delivered |-> Notify(watcher.callbacks, throwing),
                                  burst |-> watcher.burst])
  /\ UNCHANGED <<now, restOfWatcher>>

\* time passes, but not past a timer that is due
Tick ==
  /\ now < MaxTime
  /\ watcher.debounceTimer # NoTimer => now < watcher.debounceTimer
  /\ now' = now + 1
  /\ UNCHANGED <<watcher, flushed, restOfWatcher>>

NextWatcher ==
  \/ (\E c \in Callbacks : OnFileChange(c))
  \/ (\E c \in Callbacks : OffFileChange(c))
  \/ Start \/ StopBegin \/ StopEnd
  \/ (\E key \in EventKeys, type \in EventTypes : HandleFileEvent(key, type))
  \/ TimerFire \/ Tick

SpecWatcher == InitWatcher /\ [][NextWatcher]_vars

\* the type of the last event of a burst for the key
LastTypeOf(burst, key) ==
  LET last == CHOOSE i \in 1..Len(burst) :
                /\ burst[i].key = key
                /\ \A j \in (i + 1)..Len(burst) : burst[j].key # key
  IN  burst[last].type

\* C15: the add/change events handled since the last flush are flushed as
\* one batch: the batch holds exactly one entry for every key that had an
\* event, carrying the type of the key's last event; the flush happens one
\* idle window after the last event handled, once (the pending map and the
\* timer are clear after it, and while no stop is under way the timer is
\* armed whenever something is pending), and the batch is delivered to every
\* registered callback.
C15_DebounceCoalescing ==
  [][/\ (~watcher'.stopping /\ watcher'.pendingEvents # NoEvents) =>
          watcher'.debounceTimer # NoTimer
     /\ (watcher'.debounceTimer # NoTimer /\ watcher'.pendingEvents # NoEvents) =>
          /\ watcher'.burst # << >>
          /\ watcher'.debounceTimer =
               watcher'.burst[Len(watcher'.burst)].at + DebounceTicks
          /\ now' <= watcher'.debounceTimer
     /\ flushed' # flushed =>
          LET f == flushed'[Len(flushed')]
          IN  /\ flushed' = Append(flushed, f)
              /\ f.burst # << >>
              /\ f.at = f.burst[Len(f.burst)].at + DebounceTicks
              /\ KeysOf(f.events) = KeysOf(f.burst)
              /\ \A key \in KeysOf(f.burst) :
                   /\ Cardinality({i \in 1..Len(f.events) :
                                     f.events[i].key = key}) = 1
                   /\ \A i \in 1..Len(f.events) :
                        f.events[i].key = key =>
                          f.events[i].type = LastTypeOf(f.burst, key)
              /\ f.delivered = f.registered
              /\ watcher'.pendingEvents = NoEvents
              /\ watcher'.debounceTimer = NoTimer]_vars

\* a flush, two ticks after the last of three events: an add and a change of
\* one key one tick apart and an event of the other key, coalesced into two
\* entries, the first carrying "change", delivered to two callbacks
C15_Witness ==
  \E n \in 1..Len(flushed) :
    LET f == flushed[n]
    IN  /\ Len(f.burst) = 3 /\ Len(f.events) = 2
        /\ \E i, j \in 1..3 :
             /\ i < j /\ f.burst[i].key = f.burst[j].key
             /\ f.burst[i].type = "add" /\ f.burst[j].type = "change"
             /\ f.burst[j].at = f.burst[i].at + 1
             /\ f.events[1].key = f.burst[i].key
             /\ f.events[1].type = "change"
        /\ Len(f.delivered) = 2

----------------------------------------------------------------------------
(* conflict-resolver.ts: ConflictResolver called on its own *)

\* conflict.aiMtime.getTime(), conflict.obsidianMtime.getTime()
ResolverTimes == {999, 1000, 1001, 2000, 3000}

InitResolver ==
  /\ resolver \in {[IdleResolver EXCEPT !.strategy = s] : s \in Strategies}
  /\ plugin = IdlePlugin
  /\ modal = NoModal
  /\ op = NoOp
  /\ watcher = IdleWatcher
  /\ now = 0
  /\ flushed = << >>
  /\ mappings = <<MappingIds[1]>>
  /\ worlds = [id \in {} |-> 0]
  /\ all = IdleAll
  /\ aiDir = NoWorld.aiDir /\ aiDisk = NoWorld.aiDisk
  /\ obsFolder = NoWorld.obsFolder /\ obsDisk = NoWorld.obsDisk
  /\ store = NoWorld.store /\ mapping = NoWorld.mapping
  /\ settings = [conflictResolution |-> resolver.strategy,
                 syncDeletions |-> FALSE, confirmDeletions |-> TRUE]
  /\ conflictModalCallback = TRUE
  /\ deletionConfirmCallback = FALSE
  /\ run = IdleRun
  /\ dry = NoDryRun
  /\ quiet = FALSE

restOfResolver == <<engineVars, mappings, worlds, all, watcherVars, sideVars>>

\* setStrategy
SetStrategy(strategy) ==
  /\ strategy # resolver.strategy
  /\ resolver' = [resolver EXCEPT !.strategy = strategy]
  /\ UNCHANGED restOfResolver

\* resolve(conflict)
Resolve(aiMtime, obsMtime) ==
  /\ resolver' = [resolver EXCEPT !.result =
                    [aiMtime |-> aiMtime, obsMtime |-> obsMtime,
                     decision |-> resolve(resolver.strategy, aiMtime, obsMtime),
                     userChosen |-> FALSE, strategy |-> resolver.strategy]]
  /\ UNCHANGED restOfResolver

\* resolveWithUserChoice(conflict, decision)
ResolveWithUserChoice(aiMtime, obsMtime, decision) ==
  /\ resolver' = [resolver EXCEPT !.result =
                    [aiMtime |-> aiMtime, obsMtime |-> obsMtime,
                     decision |-> resolveWithUserChoice(decision),
                     userChosen |-> TRUE, strategy |-> resolver.strategy]]
  /\ UNCHANGED restOfResolver

NextResolver ==
  \/ (\E s \in Strategies : SetStrategy(s))
  \/ (\E a, o \in ResolverTimes : Resolve(a, o))
  \/ (\E a, o \in ResolverTimes, d \in Decisions : ResolveWithUserChoice(a, o, d))

SpecResolver == InitResolver /\ [][NextResolver]_vars

\* a result of resolve under newer-wins
NewerWinsResult ==
  /\ resolver.result.strategy = "newer-wins"
  /\ ~resolver.result.userChosen

\* C20 as stated: under newer-wins the resolver picks the side with the later
\* modification time, and with equal times it picks side A (use-ai).
C20_NewerWinsTieToProject ==
  NewerWinsResult =>
    LET r == resolver.result
    IN  /\ r.aiMtime > r.obsMtime => r.decision = "use-ai"
        /\ r.aiMtime < r.obsMtime => r.decision = "use-obsidian"
        /\ r.aiMtime = r.obsMtime => r.decision = "use-ai"

\* C20 amended: under newer-wins the resolver picks the side with the later
\* modification time, swapping two different times swaps the decision, and
\* with equal times it picks side B (use-obsidian).
C20_NewerWinsTieToVault ==
  /\ NewerWinsResult =>
       LET r == resolver.result
       IN  /\ r.aiMtime > r.obsMtime => r.decision = "use-ai"
           /\ r.aiMtime < r.obsMtime => r.decision = "use-obsidian"
           /\ r.aiMtime = r.obsMtime => r.decision = "use-obsidian"
  /\ \A a, o \in ResolverTimes :
       a # o => resolve("newer-wins", a, o) # resolve("newer-wins", o, a)

\* the resolver was given two equal times under newer-wins and chose the
\* vault's version
C20_Witness ==
  /\ NewerWinsResult
  /\ resolver.result.aiMtime = resolver.result.obsMtime
  /\ resolver.result.decision = "use-obsidian"

\* a result of resolve under one of the two fixed-side strategies
SideWinsResult ==
  /\ resolver.result.strategy \in {"ai-wins", "obsidian-wins"}
  /\ ~resolver.result.userChosen

\* C21: under ai-wins resolve returns use-ai and under obsidian-wins it
\* returns use-obsidian, whatever the two modification times: two conflicts
\* that differ only in their times get the same decision.
C21_SideWinsIgnoresTimes ==
  /\ SideWinsResult =>
       resolver.result.decision =
         (IF resolver.result.strategy = "ai-wins" THEN "use-ai" ELSE "use-obsidian")
  /\ \A a, o, b, p \in ResolverTimes :
       /\ resolve("ai-wins", a, o) = resolve("ai-wins", b, p)
       /\ resolve("obsidian-wins", a, o) = resolve("obsidian-wins", b, p)

\* under ai-wins the resolver was given a conflict whose vault version is the
\* later one and still chose the project's version
C21_Witness ==
  /\ SideWinsResult /\ resolver.result.strategy = "ai-wins"
  /\ resolver.result.aiMtime < resolver.result.obsMtime
  /\ resolver.result.decision = "use-ai"

----------------------------------------------------------------------------
(* Further properties of one run of syncMapping *)

\* the successful delete entries of run r
Deleted(r) == {i \in DeleteEntries(r) : r.files[i].success}

\* C23: a path the deletion pass has removed from one side is taken out of
\* that side's in-memory listing, the copy and update passes of the run have
\* no entry for it, and it is on neither side for the rest of the run.
C23_NoResurrection ==
  run.pc \in {"conflict", "done"} =>
    \A i \in Deleted(run) :
      LET p == run.files[i].file
      IN  /\ IF run.files[i].direction = "ai-to-obs"
             THEN p \notin DOMAIN run.obsFileMap
             ELSE p \notin DOMAIN run.aiFileMap
          /\ Entries(run, p, "copy") = {} /\ Entries(run, p, "update") = {}
          /\ p \notin DOMAIN aiDisk /\ p \notin DOMAIN obsDisk

\* a finished bidirectional run that deleted a path from the project and
\* copied another path
C23_Witness ==
  /\ run.pc = "done" /\ mapping.bidirectional
  /\ \E i \in Deleted(run) : run.files[i].direction = "obs-to-ai"
  /\ run.filesCopied > 0

\* C27: after a run with deletion sync on that finished without any error,
\* the paths the snapshot records for each side are the files present on
\* that side when the run ends.
C27_SnapshotIsPostSyncState ==
  (run.pc = "done" /\ run.success /\ settings.syncDeletions) =>
    /\ store.present
    /\ store.aiFiles = DOMAIN aiDisk
    /\ store.obsFiles = DOMAIN obsDisk

\* the copy entries of run r for path p toward the given side
CopiedBack(r, p, side) ==
  {i \in Entries(r, p, "copy") :
     r.files[i].direction = (IF side = "ai" THEN "obs-to-ai" ELSE "ai-to-obs")}

\* C28: in a bidirectional mapping, when the deletion confirmation is
\* declined nothing is deleted, every path whose deletion was detected stays
\* in the listing of the side where it still exists, and the run, once
\* finished, has copied it back to the side it was deleted from (one copy
\* entry toward that side; when the copy did not fail the file is on both
\* sides with the same time).
C28_DeclinedDeletionsCopiedBack ==
  (mapping.bidirectional /\ run.confirmations = <<FALSE>>) =>
    /\ DeleteEntries(run) = {}
    /\ \A n \in 1..Len(run.deletions) :
         LET d == run.deletions[n]
             p == d.relativePath
         IN  /\ IF d.existsIn = "obsidian"
                THEN p \in DOMAIN run.obsFileMap
                ELSE p \in DOMAIN run.aiFileMap
             /\ run.pc = "done" =>
                  /\ Cardinality(CopiedBack(run, p, d.deletedFrom)) = 1
                  /\ \A i \in CopiedBack(run, p, d.deletedFrom) :
                       run.files[i].success =>
                         /\ p \in DOMAIN aiDisk /\ p \in DOMAIN obsDisk
                         /\ aiDisk[p] = obsDisk[p]

\* a finished bidirectional run whose deletions, one detected on each side,
\* were declined and copied back
C28_Witness ==
  /\ mapping.bidirectional /\ run.pc = "done" /\ run.confirmations = <<FALSE>>
  /\ \E n, k \in 1..Len(run.deletions) :
       /\ run.deletions[n].deletedFrom = "ai"
       /\ run.deletions[k].deletedFrom = "obsidian"
       /\ \E i \in CopiedBack(run, run.deletions[n].relativePath, "ai") :
            run.files[i].success
       /\ \E i \in CopiedBack(run, run.deletions[k].relativePath, "obsidian") :
            run.files[i].success

\* C30: within one run of syncMapping every path has at most one entry in
\* the result's files list, for every direction and strategy (stated for the
\* runs in which no operation failed).
C30_OneEntryPerPath ==
  run.errors = << >> =>
    \A p \in PathSet :
      Cardinality({i \in 1..Len(run.files) : run.files[i].file = p}) <= 1

\* C25: from the call of stop until start is called again no batch is
\* delivered to a callback: what was pending when stop was called, and what
\* arrives while the watchers are being closed, is dropped.
C25_StopDiscardsPending ==
  [][(watcher.stopping \/ ~watcher.isWatching) => flushed' = flushed]_vars

----------------------------------------------------------------------------
(* The conflict dialogue: showConflictModal hands the engine a promise that
   the modal's onResolve option resolves; the modal keeps a promise of its
   own (resolvePromise) behind waitForDecision, which showConflictModal does
   not use *)

\* new ConflictModal(...).open() inside showConflictModal's promise
OpenModal == [state |-> "open", awaited |-> "pending", resolvePromise |-> "pending"]

\* where the modal stands once the engine has run on to its next await
ModalAfter(r, closed) == IF r.pc = "conflict" THEN OpenModal ELSE closed

\* a mapping with the dialogue as its strategy, both roots present
InitModal ==
  /\ aiDir = TRUE /\ obsFolder = TRUE
  /\ aiDisk \in Trees /\ obsDisk \in Trees
  /\ store \in States
  /\ settings \in SettingsSpace
  /\ mapping \in Mappings
  /\ <<settings.conflictResolution, mapping.conflictResolutionOverride>>
       = <<"newer-wins", "always-ask">>
  /\ <<settings.syncDeletions, settings.confirmDeletions>> \in DeletionConfigs
  /\ conflictModalCallback = TRUE
  /\ deletionConfirmCallback = FALSE
  /\ run = IdleRun
  /\ dry = NoDryRun
  /\ quiet = FALSE
  /\ mappings = <<MappingIds[1]>>
  /\ worlds = [id \in {} |-> 0]
  /\ all = IdleAll
  /\ watcher = IdleWatcher
  /\ now = 0
  /\ flushed = << >>
  /\ resolver = IdleResolver
  /\ plugin = IdlePlugin
  /\ modal = NoModal
  /\ op = NoOp

restOfModal ==
  <<mappings, worlds, all, watcher, now, flushed, resolver, plugin, op>>

\* syncMapping runs to its first conflict, where conflictModalCallback
\* (showConflictModal) opens the dialogue, or to its end
ShowConflictModal ==
  /\ StartSyncMapping
  /\ modal' = ModalAfter(run', NoModal)
  /\ UNCHANGED restOfModal

\* a button of the dialogue: handleDecision calls onResolve, resolves the
\* modal's own promise and closes; the engine goes on with the decision
HandleDecision ==
  /\ modal.state = "open"
  /\ \E decision \in Decisions :
       /\ ResumeSyncMapping(decision)
       /\ modal' = ModalAfter(run', [state |-> "closed", awaited |-> decision,
                                     resolvePromise |-> decision])
  /\ UNCHANGED restOfModal

\* the dialogue is dismissed (Escape, the close button, a click outside):
\* onClose resolves the modal's own promise with "skip" and calls nothing else
OnClose ==
  /\ modal.state = "open"
  /\ modal' = [modal EXCEPT !.state = "closed", !.resolvePromise = "skip"]
  /\ UNCHANGED <<engineVars, restOfModal>>

ModalSyncReturn ==
  /\ ReturnSyncResult
  /\ modal' = NoModal
  /\ UNCHANGED restOfModal

NextModal == ShowConflictModal \/ HandleDecision \/ OnClose \/ ModalSyncReturn

SpecModal == InitModal /\ [][NextModal]_vars

\* C26: once the conflict dialogue is closed, by a button or by dismissing
\* it, the promise the engine awaits is resolved (with "skip" when nothing
\* was chosen) and the run is no longer waiting at that conflict
C26_DismissResolvesAsSkip ==
  modal.state = "closed" =>
    /\ modal.awaited = modal.resolvePromise
    /\ run.pc # "conflict"

----------------------------------------------------------------------------
(* Backups: one call of copyFileToObsidian, copyFileToAi or deleteFile on one
   path, with the content of the file kept apart from its backups.  The
   vault's file index is taken to agree with the disk. *)

MaxCalls == 2

MaxStamp == 1

Contents == {"v1", "v2"}

Absent == "absent"

FileFunctions == {"copyFileToObsidian", "copyFileToAi", "deleteFile"}

\* the I/O step of the call that throws, if any
FailPoints == {"none", "backup", "write"}

\* the arguments and surroundings of one call: the function, the side the
\* file to delete exists in, settings.createBackups, the source's content
\* (copies only), the destination, the backups of the destination by
\* timestamp, and the clock
Call(fn, existsIn, createBackups, source, target, backups, stamp, fail, calls) ==
  [pc |-> "call", fn |-> fn, existsIn |-> existsIn,
   createBackups |-> createBackups, source |-> source, target |-> target,
   prior |-> target, backups |-> backups, priorBackups |-> backups,
   stamp |-> stamp, fail |-> fail, log |-> << >>, error |-> FALSE,
   entry |-> "none", calls |-> calls]

Calls(target, backups, stamps, calls) ==
  {Call(fn, existsIn, createBackups, source, target, backups, stamp, fail, calls) :
     fn \in FileFunctions, existsIn \in {"ai", "obsidian"},
     createBackups \in BOOLEAN, source \in Contents \cup {Absent},
     stamp \in stamps, fail \in FailPoints}

Throw(o) == [o EXCEPT !.error = TRUE]

\* vault.read, then vault.create of <path>.backup-<timestamp>: create throws
\* when that backup path exists
createObsidianBackup(o) ==
  IF o.fail = "backup" \/ o.stamp \in DOMAIN o.backups
  THEN Throw(o)
  ELSE [o EXCEPT !.backups = (o.stamp :> o.target) @@ @,
                 !.log = Append(@, "backup")]

\* readFileSync, then writeFileSync of <path>.backup-<timestamp>
createAiBackup(o) ==
  IF o.fail = "backup"
  THEN Throw(o)
  ELSE [o EXCEPT !.backups = (o.stamp :> o.target) @@ @,
                 !.log = Append(@, "backup")]

\* vault.modify / vault.create / writeFileSync of the destination
WriteTarget(o) ==
  IF o.fail = "write"
  THEN Throw(o)
  ELSE [o EXCEPT !.target = o.source, !.log = Append(@, "write")]

\* fileManager.trashFile / unlinkSync of the destination
RemoveTarget(o) ==
  IF o.fail = "write"
  THEN Throw(o)
  ELSE [o EXCEPT !.target = Absent, !.log = Append(@, "delete")]

\* copyFileToObsidian: stat and read the source, back up, write
copyFileToObsidianCall(o) ==
  IF o.source = Absent
  THEN Throw(o)
  ELSE LET b == IF o.createBackups /\ o.target # Absent
                THEN createObsidianBackup(o) ELSE o
       IN  IF b.error THEN b ELSE WriteTarget(b)

\* a copy that writes without backing up
copyFileToAiWithoutBackup(o) ==
  IF o.source = Absent THEN Throw(o) ELSE WriteTarget(o)

\* copyFileToAi: back up, read the source, write
copyFileToAiCall(o) ==
  LET b == IF o.createBackups /\ o.target # Absent
           THEN createAiBackup(o) ELSE o
  IN  IF b.error THEN b
      ELSE IF b.source = Absent THEN Throw(b)
      ELSE WriteTarget(b)

\* deleteFile: back up the file where it exists, then trash or unlink it
deleteFileCall(o) ==
  LET b == IF o.createBackups /\ o.target # Absent
           THEN (IF o.existsIn = "obsidian"
                 THEN createObsidianBackup(o) ELSE createAiBackup(o))
           ELSE o
  IN  IF b.error \/ b.target = Absent THEN b ELSE RemoveTarget(b)

\* the caller's try/catch: the path's entry in the SyncResult
Caught(o) ==
  [o EXCEPT !.pc = "done", !.entry = IF o.error THEN "error" ELSE "success"]

InitBackup ==
  /\ aiDir = TRUE /\ obsFolder = TRUE
  /\ aiDisk = EmptyTree /\ obsDisk = EmptyTree
  /\ store = NoState
  /\ settings = [conflictResolution |-> "newer-wins", syncDeletions |-> TRUE,
                 confirmDeletions |-> FALSE]
  /\ mapping \in {m \in Mappings : m.bidirectional}
  /\ mapping.conflictResolutionOverride = Unset
  /\ conflictModalCallback = TRUE
  /\ deletionConfirmCallback = FALSE
  /\ run = IdleRun
  /\ dry = NoDryRun
  /\ quiet = FALSE
  /\ mappings = <<MappingIds[1]>>
  /\ worlds = [id \in {} |-> 0]
  /\ all = IdleAll
  /\ watcher = IdleWatcher
  /\ now = 0
  /\ flushed = << >>
  /\ resolver = IdleResolver
  /\ plugin = IdlePlugin
  /\ modal = NoModal
  /\ op \in UNION {Calls(target, << >>, {0}, 1) : target \in Contents \cup {Absent}}

restOfBackup ==
  <<engineVars, mappings, worlds, all, watcher, now, flushed, resolver,
    plugin, modal>>

CopyFileToObsidian ==
  /\ op.pc = "call" /\ op.fn = "copyFileToObsidian"
  /\ op' = Caught(copyFileToObsidianCall(op))
  /\ UNCHANGED restOfBackup

CopyFileToAi ==
  /\ op.pc = "call" /\ op.fn = "copyFileToAi"
  /\ op' = Caught(copyFileToAiCall(op))
  /\ UNCHANGED restOfBackup

DeleteFile ==
  /\ op.pc = "call" /\ op.fn = "deleteFile"
  /\ op' = Caught(deleteFileCall(op))
  /\ UNCHANGED restOfBackup

\* the next call on the same path, in the same millisecond or a later one
NextCall ==
  /\ op.pc = "done" /\ op.calls < MaxCalls
  /\ op' \in Calls(op.target, op.backups,
                   {op.stamp, IF op.stamp < MaxStamp THEN op.stamp + 1 ELSE op.stamp},
                   op.calls + 1)
  /\ UNCHANGED restOfBackup

NextBackup == CopyFileToObsidian \/ CopyFileToAi \/ DeleteFile \/ NextCall

SpecBackup == InitBackup /\ [][NextBackup]_vars

\* the call overwrote or removed the destination
Destroyed(o) == "write" \in Range(o.log) \/ "delete" \in Range(o.log)

\* the call made a backup that holds content
BackedUp(o, content) ==
  /\ o.log # << >> /\ o.log[1] = "backup"
  /\ o.stamp \in DOMAIN o.backups /\ o.backups[o.stamp] = content

\* C22: with createBackups on, a call that overwrites or deletes an existing
\* destination has first written a backup holding the destination's prior
\* content; a call whose backup failed has left the destination as it was
\* and its path has an error entry
C22_BackupPrecedesDestruction ==
  (op.pc = "done" /\ op.createBackups /\ op.prior # Absent) =>
    /\ Destroyed(op) => BackedUp(op, op.prior)
    /\ op.target # op.prior => Destroyed(op)
    /\ ~BackedUp(op, op.prior) =>
         /\ op.target = op.prior
         /\ op.backups = op.priorBackups
         /\ (op.fail = "backup" \/ op.stamp \in DOMAIN op.priorBackups)
              => op.entry = "error"

\* a second call on a path overwrote content that its backup holds, next to
\* the backup the first call made
C22_Witness ==
  /\ op.pc = "done" /\ op.createBackups /\ op.calls = 2
  /\ op.prior # Absent /\ op.target # op.prior /\ op.target # Absent
  /\ BackedUp(op, op.prior)
  /\ DOMAIN op.backups = {0, 1}

----------------------------------------------------------------------------
(* Sync mode on-change: the watchers report the writes of a run like any
   other write, the debounce timer flushes them to handleFileChanges, and
   handleFileChanges calls syncMapping.  A manual or scheduled sync calls
   syncMapping as well.  An invocation that waits at a conflict dialogue
   stays in flight while a later one runs; the dialogue opened last is the
   one the user answers first. *)

MaxManual == 1

MaxRuns == 2

MaxDepth == 4

\* the snapshots an earlier session has left: none, or one that tracks
\* both paths on both sides
OnChangeStates == {NoState, updateState(EditPaths, EditPaths)}

\* the trees at the start: files saved on whole seconds
OnChangeTrees == {f \in Trees : \A p \in DOMAIN f : f[p] # 1999}

\* the add and change events the watchers of the two sides will report for
\* the copies and updates a run has made since its entry number from, given
\* the trees (ai, obs) before them; the unlink of a deletion is logged and
\* dropped
WriteEvents(files, from, ai, obs) ==
  {FileChangeEvent(
     <<MappingIds[1],
       IF files[i].direction = "ai-to-obs" THEN "obsidian" ELSE "ai",
       files[i].file>>,
     IF files[i].file \in DOMAIN (IF files[i].direction = "ai-to-obs"
                                  THEN obs ELSE ai)
     THEN "change" ELSE "add") :
   i \in {j \in (from + 1)..Len(files) :
           files[j].success /\ files[j].action \in {"copy", "update"}}}

\* handleFileChanges line 445 / syncAll line 159: a mapping is synced when
\* it is found and enabled
ShouldSync(enabled) == enabled

Min(a, b) == IF a < b THEN a ELSE b

\* an external save of a.md on the project side has just happened; nothing else will
\* be edited from outside
InitOnChange ==
  /\ aiDir = TRUE /\ obsFolder = TRUE
  /\ aiDisk \in OnChangeTrees /\ obsDisk \in OnChangeTrees
  /\ store \in OnChangeStates
  /\ settings \in SettingsSpace
  /\ mapping \in Mappings
  /\ <<settings.conflictResolution, mapping.conflictResolutionOverride>>
       \in StrategyConfigs
  /\ <<settings.syncDeletions, settings.confirmDeletions>>
       \in {<<FALSE, TRUE>>, <<TRUE, FALSE>>}
  /\ conflictModalCallback = TRUE
  /\ deletionConfirmCallback = FALSE
  /\ run = IdleRun
  /\ dry = NoDryRun
  /\ quiet = FALSE
  /\ mappings = <<MappingIds[1]>>
  /\ worlds = [id \in {} |-> 0]
  /\ all = IdleAll
  /\ watcher = [IdleWatcher EXCEPT !.isWatching = TRUE,
                                   !.callbacks = <<"handleFileChanges">>]
  /\ now = 0
  /\ flushed = << >>
  /\ resolver = IdleResolver
  /\ \E enabled \in BOOLEAN :
       plugin = [IdlePlugin EXCEPT
                   !.syncEnabled = enabled,
                   !.inflight = {FileChangeEvent(<<MappingIds[1], "ai", "a.md">>,
                                                 "change")}]
  /\ modal = NoModal
  /\ op = NoOp

restOfOnChange == <<mappings, worlds, all, now, flushed, resolver, modal, op>>

\* a watcher's add/change listener: handleFileEvent
WatcherReports ==
  /\ \E event \in plugin.inflight :
       /\ watcher' = [watcher EXCEPT
                        !.pendingEvents = MapSet(@, event),
                        !.debounceTimer = now + DebounceTicks]
       /\ plugin' = [plugin EXCEPT !.inflight = @ \ {event}]
  /\ UNCHANGED <<engineVars, restOfOnChange>>

\* a call of syncMapping from a trigger: an invocation waiting at a dialogue
\* stays in flight behind the new one
Triggered(by) ==
  /\ run.pc \in {"idle", "conflict"}
  /\ Len(plugin.suspended) < MaxDepth
  /\ BeginSyncMapping
  /\ plugin' = [plugin EXCEPT
                  !.suspended = IF run.pc = "conflict" THEN Append(@, run) ELSE @,
                  !.inflight = @ \cup WriteEvents(run'.files, 0, aiDisk, obsDisk),
                  !.trigger = [by |-> by, busy |-> run.pc = "conflict",
                               started |-> TRUE],
                  !.manual = IF by = "manual" THEN @ + 1 ELSE @,
                  !.runs = IF by = "watcher" THEN Min(@ + 1, MaxRuns) ELSE @]

\* a trigger that starts nothing
NotTriggered(by) ==
  /\ plugin' = [plugin EXCEPT
                  !.trigger = [by |-> by, busy |-> run.pc = "conflict",
                               started |-> FALSE],
                  !.manual = IF by = "manual" THEN @ + 1 ELSE @]
  /\ UNCHANGED engineVars

\* a handler that leaves a batch alone while a sync is in flight
HandleFileChangesUnlessBusy ==
  /\ watcher.debounceTimer # NoTimer
  /\ run.pc \in {"idle", "conflict"}
  /\ watcher' = [watcher EXCEPT !.debounceTimer = NoTimer,
                                !.pendingEvents = NoEvents]
  /\ IF ShouldSync(plugin.syncEnabled) /\ run.pc = "idle"
     THEN Triggered("watcher")
     ELSE NotTriggered("watcher")
  /\ UNCHANGED restOfOnChange

\* the debounce timer fires: flushPendingEvents hands the batch to
\* handleFileChanges, which syncs the mapping of the events
HandleFileChanges ==
  /\ watcher.debounceTimer # NoTimer
  /\ run.pc \in {"idle", "conflict"}
  /\ watcher' = [watcher EXCEPT !.debounceTimer = NoTimer,
                                !.pendingEvents = NoEvents]
  /\ IF ShouldSync(plugin.syncEnabled)
     THEN Triggered("watcher")
     ELSE NotTriggered("watcher")
  /\ UNCHANGED restOfOnChange

\* the scheduled interval or a sync command: syncAllProjects
SyncAllProjects ==
  /\ plugin.manual < MaxManual
  /\ run.pc \in {"idle", "conflict"}
  /\ IF ShouldSync(plugin.syncEnabled)
     THEN Triggered("manual")
     ELSE NotTriggered("manual")
  /\ UNCHANGED <<watcher, restOfOnChange>>

\* the user presses a button of the dialogue on top
AnswerConflict ==
  /\ \E userDecision \in Decisions : ResumeSyncMapping(userDecision)
  /\ plugin' = [plugin EXCEPT
                  !.inflight = @ \cup WriteEvents(run'.files, Len(run.files),
                                                  aiDisk, obsDisk)]
  /\ UNCHANGED <<watcher, restOfOnChange>>

\* the invocation returns its SyncResult; the one that waited behind it has
\* its dialogue on top again
OnChangeReturn ==
  /\ run.pc = "done"
  /\ quiet' = run.success
  /\ IF plugin.suspended = << >>
     THEN run' = IdleRun /\ plugin' = plugin
     ELSE /\ run' = plugin.suspended[Len(plugin.suspended)]
          /\ plugin' = [plugin EXCEPT
                          !.suspended = SubSeq(@, 1, Len(@) - 1)]
  /\ UNCHANGED <<aiDir, aiDisk, obsFolder, obsDisk, store, settings, mapping,
                 conflictModalCallback, deletionConfirmCallback, dry>>
  /\ UNCHANGED <<watcher, restOfOnChange>>

NextOnChange ==
  \/ WatcherReports \/ HandleFileChanges \/ SyncAllProjects
  \/ AnswerConflict \/ OnChangeReturn

SpecOnChange == InitOnChange /\ [][NextOnChange]_vars

\* the chain on its own: no edit from outside and no manual or scheduled
\* sync after the initial save
NextChain ==
  WatcherReports \/ HandleFileChanges \/ AnswerConflict \/ OnChangeReturn

\* the watchers report every write, the timer fires, the user answers every
\* dialogue and every invocation returns
SpecChainFair ==
  /\ InitOnChange /\ [][NextChain]_vars
  /\ WF_vars(WatcherReports) /\ WF_vars(HandleFileChanges)
  /\ WF_vars(AnswerConflict) /\ WF_vars(OnChangeReturn)

\* C24: a trigger for an enabled mapping starts a run of syncMapping at
\* once, whether the trigger is the watcher or a manual or scheduled sync,
\* and whether or not another run of the mapping is in flight
C24_NoMutualExclusion ==
  (plugin.trigger.by # "none" /\ ShouldSync(plugin.syncEnabled)) =>
    plugin.trigger.started

\* a manual sync ran to its end while a watcher-triggered run of the mapping
\* waited at its dialogue; both started from the same absent snapshot, and
\* the manual one has saved its own
C24_Witness ==
  /\ plugin.trigger = [by |-> "manual", busy |-> TRUE, started |-> TRUE]
  /\ Len(plugin.suspended) = 1
  /\ plugin.suspended[1].pc = "conflict" /\ plugin.suspended[1].firstSync
  /\ plugin.runs = 1
  /\ run.pc = "done" /\ run.firstSync
  /\ store.present

\* nothing is in flight, pending or running
Quiescent ==
  /\ plugin.inflight = {}
  /\ watcher.pendingEvents = NoEvents /\ watcher.debounceTimer = NoTimer
  /\ run.pc = "idle" /\ plugin.suspended = << >>

====
